---- MODULE Spec2Model ----
(***************************************************************************)
(* Session-based identity layer, ownership checks and in-memory            *)
(* repositories of un-tie_code (Go).                                       *)
(*                                                                         *)
(* Program state: the Identity Store (users, byEmail), the Session         *)
(* Registry (sessions), the Project Store (projects) and the clock (now).  *)
(* Every call or HTTP request runs in a process p: pc[p] is its position,  *)
(* rq[p] its arguments, lc[p] its local variables and rs[p] its result.    *)
(* A repository method holds its store's lock for its whole body, so it is *)
(* one step; AuthServiceImpl has no lock, so each access it makes to the   *)
(* session map is a step of its own.                                       *)
(***************************************************************************)
EXTENDS Integers, Sequences, FiniteSets, TLC

VARIABLES
  hv,        \* which handlers file is built: "part_003" or "part_004"
  now,       \* the reading of time.Now()
  users,     \* MemoryUserRepository.users: ID -> user
  byEmail,   \* MemoryUserRepository.byEmail: email -> user
  sessions,  \* AuthServiceImpl.sessions: token -> sessionData
  projects,  \* MemoryProjectRepository.projects: ID -> project
  mutex,     \* the sync.RWMutex of each repository: its writer and its readers
  heap,      \* backing arrays of the slices in project values: address -> elements
  pc,        \* per process: position in the running operation
  rq,        \* per process: the operation and its arguments
  lc,        \* per process: local variables of the running operation
  rs,        \* per process: the result of the last finished operation
  issued,    \* history: tokens GenerateSessionToken has returned
  revoked    \* history: tokens whose InvalidateSession has returned since their last issue

vars == <<hv, heap, mutex, now, users, byEmail, sessions, projects, pc, rq, lc, rs, issued, revoked>>

-----------------------------------------------------------------------------
(* Bounds of the model *)

MaxTime == 3

(* distinct session tokens issued in one run *)
MaxIssued == 2

(* 24 * time.Hour, in clock ticks of 12 hours *)
SessionTTL == 2

Procs == {"r1", "r2"}

-----------------------------------------------------------------------------
(* Values *)

ZeroTime == -1

TestEmail == "test@untie.me"
OtherEmail == "a@example.com"
Emails == {TestEmail, OtherEmail}

SeedID == "u0"
UserIDs == {SeedID, "u1"}

Times == 0..MaxTime

NoUser == [ID |-> "", Email |-> "", LastLogin |-> ZeroTime]
NoSession == [userID |-> "", expiresAt |-> ZeroTime, lastActive |-> ZeroTime]
NoToken == <<ZeroTime, "">>
(* URLs, as the sequences of their parts *)
LoginPath == <<"/", "auth", "/", "login">>
RootPath == <<"/">>
ProtectedPath == <<"/", "projects">>
APIPath == <<"/", "api", "/", "v1", "/", "projects">>
HealthPath == <<"/", "health">>

NoCookie == [name |-> "", value |-> NoToken, maxAge |-> 0]
(* a slice field holds the address of its backing array; NilSlice has none *)
NilSlice == 0

NoProject == [ID |-> "", Name |-> "", Description |-> "", CreatedAt |-> ZeroTime,
              UpdatedAt |-> ZeroTime, UserID |-> "", TechStack |-> NilSlice,
              Features |-> NilSlice]

ErrNone == "nil"
ErrInvalidCredentials == "invalid credentials"
ErrUserNotFound == "user not found"
ErrEmailAlreadyExists == "email already exists"
ErrUserIDExists == "user with this ID already exists"
ErrInvalidSession == "invalid session"
ErrSessionExpired == "session expired"
ErrNoCookie == "http: named cookie not present"
ErrProjectNotFound == "project not found"
ErrProjectIDExists == "project with this ID already exists"
ErrNameEmpty == "project name cannot be empty"

(* fmt.Errorf("<prefix>: %w", err) *)
Wrap(prefix, err) == prefix \o ": " \o err

(* models.NewUser: LastLogin is left at its zero value *)
NewUser(id, email) == [ID |-> id, Email |-> email, LastLogin |-> ZeroTime]

(* Go maps: m[k] = v and delete(m, k) *)
Put(m, k, v) == [x \in (DOMAIN m) \cup {k} |-> IF x = k THEN v ELSE m[x]]
Del(m, k) == [x \in (DOMAIN m) \ {k} |-> m[x]]
EmptyMap == [x \in {} |-> 0]

-----------------------------------------------------------------------------
(* Faulty variants of the operators below, used to test the properties *)

(* RequireAuth that redirects but does not abort the handler chain *)
RequireAuth_NoAbort(authenticated, url) ==
  IF authenticated # TRUE
    THEN [next |-> TRUE, status |-> 302, location |-> <<"/", "auth", "/", "login">>,
          returnTo |-> url]
  ELSE [next |-> TRUE, status |-> 200, location |-> <<>>, returnTo |-> <<>>]

(* Create without the email-uniqueness check *)
Create_NoEmailCheck(us, be, u) ==
  IF u.ID \in DOMAIN us
    THEN [err |-> "user with this ID already exists", users |-> us, byEmail |-> be]
  ELSE [err |-> "nil", users |-> Put(us, u.ID, u), byEmail |-> Put(be, u.Email, u)]

(* GetByID that answers for a deleted user with a record made up from the id *)
GetByID_Stale(us, id) ==
  IF id \in DOMAIN us THEN [err |-> "nil", user |-> us[id]]
  ELSE [err |-> "nil", user |-> [ID |-> id, Email |-> "test@untie.me", LastLogin |-> -1]]

(* Update that removes the old email entry before it looks for a collision *)
Update_DeleteFirst(us, be, u) ==
  IF u.ID \notin DOMAIN us
    THEN [err |-> "user not found", users |-> us, byEmail |-> be]
  ELSE LET be1 == IF us[u.ID].Email # u.Email THEN Del(be, us[u.ID].Email) ELSE be IN
       IF us[u.ID].Email # u.Email /\ u.Email \in DOMAIN be
         THEN [err |-> "email already exists", users |-> us, byEmail |-> be1]
       ELSE [err |-> "nil", users |-> Put(us, u.ID, u), byEmail |-> Put(be1, u.Email, u)]

(* Update that leaves the old email entry in the email index *)
Update_KeepOldEmail(us, be, u) ==
  IF u.ID \notin DOMAIN us
    THEN [err |-> "user not found", users |-> us, byEmail |-> be]
  ELSE IF us[u.ID].Email # u.Email /\ u.Email \in DOMAIN be
    THEN [err |-> "email already exists", users |-> us, byEmail |-> be]
  ELSE [err |-> "nil", users |-> Put(us, u.ID, u), byEmail |-> Put(be, u.Email, u)]

(* Delete that reports success for an absent identifier *)
Delete_Silent(us, be, id) ==
  IF id \notin DOMAIN us
    THEN [err |-> "nil", users |-> us, byEmail |-> be]
  ELSE [err |-> "nil", users |-> Del(us, id), byEmail |-> Del(be, us[id].Email)]

-----------------------------------------------------------------------------
(* Identity Store: each method runs under r.mutex, so each is one step.    *)

MemoryUserRepository_GetByID(us, id) ==
  IF id \in DOMAIN us THEN [err |-> ErrNone, user |-> us[id]]
  ELSE [err |-> ErrUserNotFound, user |-> NoUser]

MemoryUserRepository_GetByEmail(be, email) ==
  IF email \in DOMAIN be THEN [err |-> ErrNone, user |-> be[email]]
  ELSE [err |-> ErrUserNotFound, user |-> NoUser]

MemoryUserRepository_Create(us, be, u) ==
  IF u.ID \in DOMAIN us
    THEN [err |-> ErrUserIDExists, users |-> us, byEmail |-> be]
  ELSE IF u.Email \in DOMAIN be
    THEN [err |-> ErrEmailAlreadyExists, users |-> us, byEmail |-> be]
  ELSE [err |-> ErrNone, users |-> Put(us, u.ID, u), byEmail |-> Put(be, u.Email, u)]

MemoryUserRepository_Update(us, be, u) ==
  IF u.ID \notin DOMAIN us
    THEN [err |-> ErrUserNotFound, users |-> us, byEmail |-> be]
  ELSE IF us[u.ID].Email # u.Email /\ u.Email \in DOMAIN be
    THEN [err |-> ErrEmailAlreadyExists, users |-> us, byEmail |-> be]
  ELSE LET be1 == IF us[u.ID].Email # u.Email THEN Del(be, us[u.ID].Email) ELSE be
       IN  [err |-> ErrNone, users |-> Put(us, u.ID, u), byEmail |-> Put(be1, u.Email, u)]

MemoryUserRepository_Delete(us, be, id) ==
  IF id \notin DOMAIN us
    THEN [err |-> ErrUserNotFound, users |-> us, byEmail |-> be]
  ELSE [err |-> ErrNone, users |-> Del(us, id), byEmail |-> Del(be, us[id].Email)]

(* NewMemoryUserRepository: the store starts with the seeded test user *)
SeedUser == NewUser(SeedID, TestEmail)
NewMemoryUserRepository ==
  MemoryUserRepository_Create(EmptyMap, EmptyMap, SeedUser)

(* project Create that overwrites a stored project with the same identifier *)
ProjectCreate_Overwrite(ps, project) ==
  [err |-> "nil", projects |-> Put(ps, project.ID, project)]

-----------------------------------------------------------------------------
(* Project Store: each method runs under r.mutex, so each is one step.      *)

MemoryProjectRepository_GetByID(ps, id) ==
  IF id \in DOMAIN ps THEN [err |-> ErrNone, project |-> ps[id]]
  ELSE [err |-> ErrProjectNotFound, project |-> NoProject]

MemoryProjectRepository_Create(ps, project) ==
  IF project.ID \in DOMAIN ps THEN [err |-> ErrProjectIDExists, projects |-> ps]
  ELSE [err |-> ErrNone, projects |-> Put(ps, project.ID, project)]

(* a repository Update that stores the project whether or not it is there *)
ProjectUpdate_Upsert(ps, project) == [err |-> "nil", projects |-> Put(ps, project.ID, project)]

MemoryProjectRepository_Update(ps, project) ==
  IF project.ID \notin DOMAIN ps THEN [err |-> ErrProjectNotFound, projects |-> ps]
  ELSE [err |-> ErrNone, projects |-> Put(ps, project.ID, project)]

MemoryProjectRepository_Delete(ps, id) ==
  IF id \notin DOMAIN ps THEN [err |-> ErrProjectNotFound, projects |-> ps]
  ELSE [err |-> ErrNone, projects |-> Del(ps, id)]

(* models.NewProject, with the identifier generateID took from the clock *)
NewProject(id, name, description, userID, t) ==
  [ID |-> id, Name |-> name, Description |-> description, CreatedAt |-> t,
   UpdatedAt |-> t, UserID |-> userID, TechStack |-> NilSlice, Features |-> NilSlice]

-----------------------------------------------------------------------------
(* Session Registry: pure parts of AuthServiceImpl *)

(* fmt.Sprintf("session-%d-%s", time.Now().UnixNano(), user.ID) *)
TokenValue(t, uid) == <<t, uid>>

IssuedAt(tok) == tok[1]

(* time.Now().After(session.expiresAt) *)
SessionExpired(t, session) == t > session.expiresAt

(* the sessionData GenerateSessionToken stores *)
NewSessionData(t, uid) ==
  [userID |-> uid, expiresAt |-> t + SessionTTL, lastActive |-> t]

-----------------------------------------------------------------------------
(* Access Gate: pure parts of SessionMiddleware, RequireAuth, Login, Logout *)

(* the cookie SessionMiddleware reads *)
GateCookie == "session_token"

(* the cookie Login writes, and the one Logout reads and clears *)
LoginCookie == IF hv = "part_003" THEN "session" ELSE "session_token"
LogoutCookie == IF hv = "part_003" THEN "session" ELSE "session_token"

(* c.SetCookie(name, "", -1, ...) *)
ClearCookie(name) == [name |-> name, value |-> NoToken, maxAge |-> -1]

(* RequireAuth: redirect to the login page and abort, or call the next     *)
(* handler (which answers 200)                                              *)
RequireAuth(authenticated, url) ==
  IF authenticated # TRUE
    THEN [next |-> FALSE, status |-> 302, location |-> LoginPath, returnTo |-> url]
  ELSE [next |-> TRUE, status |-> 200, location |-> <<>>, returnTo |-> <<>>]

(* Authenticate without the development login of the test user *)
Authenticate_PasswordForAll(be, email, password) ==
  IF email \notin DOMAIN be THEN [err |-> "invalid credentials", user |-> NoUser]
  ELSE IF password = "test-password" THEN [err |-> "nil", user |-> be[email]]
  ELSE [err |-> "invalid credentials", user |-> NoUser]

(* CreateProject without the validation of the name *)
CreateProject_NoValidation(ps, project, t, freshID) ==
  LET pr == [project EXCEPT !.CreatedAt = t, !.UpdatedAt = t,
                            !.ID = IF @ = "" THEN freshID ELSE @]
  IN  IF pr.ID \in DOMAIN ps
        THEN [err |-> Wrap("failed to create project", "project with this ID already exists"),
              projects |-> ps]
        ELSE [err |-> "nil", projects |-> Put(ps, pr.ID, pr)]

(* UpdateProject that writes the creation time its caller passed *)
UpdateProject_KeepCallerStamp(ps, project) ==
  IF project.ID \notin DOMAIN ps
    THEN [err |-> Wrap("failed to get existing project", "project not found"),
          project |-> project]
  ELSE IF project.Name = ""
    THEN [err |-> "project name cannot be empty", project |-> project]
  ELSE [err |-> "nil", project |-> project]

(* a Lock that does not wait for the readers *)
CanLock_IgnoreReaders(m) == m.w = ""

(* sync.RWMutex: Lock waits until no writer and no reader holds the mutex, *)
(* RLock until no writer holds it                                          *)
Stores == {"users", "projects"}
FreeMutex == [w |-> "", r |-> {}]
CanLock(m) == m.w = "" /\ m.r = {}
CanRLock(m) == m.w = ""

(* SessionMiddleware that takes the presence of the cookie for a session *)
SessionMiddleware_TrustCookie(cookie, e, u) ==
  [authenticated |-> cookie = "session_token",
   user |-> IF e = "nil" THEN u ELSE NoUser,
   sessionCookie |-> NoCookie,
   next |-> TRUE]

(* SessionMiddleware that stops the chain of a request it cannot verify *)
SessionMiddleware_Abort(cookie, e, u) ==
  [authenticated |-> e = "nil", user |-> IF e = "nil" THEN u ELSE NoUser,
   sessionCookie |-> IF cookie = "session_token" /\ e # "nil"
                       THEN ClearCookie("session_token") ELSE NoCookie,
   next |-> e = "nil"]

(* SessionMiddleware, once the cookie lookup and VerifySession have ended   *)
(* with error e and user u: what it sets in the context, the cookie it      *)
(* clears, and c.Next()                                                     *)
SessionMiddleware(cookie, e, u) ==
  [authenticated |-> e = ErrNone, user |-> IF e = ErrNone THEN u ELSE NoUser,
   sessionCookie |-> IF cookie = GateCookie /\ e # ErrNone
                       THEN ClearCookie(GateCookie) ELSE NoCookie,
   next |-> TRUE]

(* the routes of setupRoutes by the middleware in front of them: behind    *)
(* RequireAuth the interactive pages and the JSON endpoints of /api/v1,     *)
(* without it /health, /api/v1/status and the login page                    *)
GuardedOps == {"Protected", "ProtectedAPI"}
RouteOps == GuardedOps \cup {"Public"}
RoutePath(op) ==
  IF op = "Protected" THEN ProtectedPath ELSE IF op = "ProtectedAPI" THEN APIPath
  ELSE HealthPath

-----------------------------------------------------------------------------
(* Processes *)

NoRq == [op |-> "", tok |-> NoToken, uid |-> "", email |-> "", name |-> "", pw |-> "",
         pid |-> "", desc |-> "", rel |-> "", cookie |-> "", returnTo |-> <<>>,
         remember |-> FALSE, bad |-> FALSE]
NoLc == [session |-> NoSession, user |-> NoUser, project |-> NoProject,
         verr |-> ErrNone, afterTTL |-> FALSE, afterRevoke |-> FALSE, writes |-> <<>>]
NoRs == [op |-> "", err |-> ErrNone, status |-> 0, user |-> NoUser, tok |-> NoToken,
         afterTTL |-> FALSE, afterRevoke |-> FALSE, authenticated |-> FALSE,
         ran |-> FALSE, location |-> <<>>, sessionCookie |-> NoCookie,
         returnTo |-> <<>>, project |-> NoProject, list |-> <<>>,
         clearsReturnTo |-> FALSE]

(* A finished call holds its result in rs until it returns; nothing else runs in between. *)
Quiet == \A q \in Procs : pc[q] # "done"
Free(p) == Quiet /\ pc[p] = "idle"

(* process p starts operation r at position at *)
Begin(p, r, at, l) ==
  /\ Free(p)
  /\ pc' = [pc EXCEPT ![p] = at]
  /\ rq' = [rq EXCEPT ![p] = r]
  /\ lc' = [lc EXCEPT ![p] = l]
  /\ rs' = [rs EXCEPT ![p] = NoRs]

(* process p returns res; a call that starts and ends in one step passes its own r *)
Finish(p, r, res) ==
  /\ Quiet
  /\ pc' = [pc EXCEPT ![p] = "done"]
  /\ rq' = [rq EXCEPT ![p] = r]
  /\ lc' = [lc EXCEPT ![p] = NoLc]
  /\ rs' = [rs EXCEPT ![p] = [res EXCEPT !.op = r.op]]

Goto(p, at, l) ==
  /\ Quiet
  /\ pc' = [pc EXCEPT ![p] = at]
  /\ lc' = [lc EXCEPT ![p] = l]
  /\ UNCHANGED <<rq, rs>>

(* the call of process p returns to its caller *)
Return(p) ==
  /\ pc[p] = "done"
  /\ pc' = [pc EXCEPT ![p] = "idle"]
  /\ rq' = [rq EXCEPT ![p] = NoRq]
  /\ rs' = [rs EXCEPT ![p] = NoRs]
  /\ UNCHANGED <<hv, heap, mutex, now, users, byEmail, sessions, projects, lc, issued, revoked>>

-----------------------------------------------------------------------------
(* The clock *)

Tick ==
  /\ Quiet
  /\ now < MaxTime
  /\ now' = now + 1
  /\ UNCHANGED <<hv, heap, mutex, users, byEmail, sessions, projects, pc, rq, lc, rs, issued, revoked>>

-----------------------------------------------------------------------------
(* Direct calls of the Identity Store (as the tests make them) *)

CallUserCreate(p, u) ==
  LET r == MemoryUserRepository_Create(users, byEmail, u) IN
  /\ Free(p)
  /\ users' = r.users
  /\ byEmail' = r.byEmail
  /\ Finish(p, [NoRq EXCEPT !.op = "UserRepo.Create", !.uid = u.ID, !.email = u.Email],
            [NoRs EXCEPT !.err = r.err])
  /\ UNCHANGED <<hv, heap, mutex, now, sessions, projects, issued, revoked>>

CallUserDelete(p, id) ==
  LET r == MemoryUserRepository_Delete(users, byEmail, id) IN
  /\ Free(p)
  /\ users' = r.users
  /\ byEmail' = r.byEmail
  /\ Finish(p, [NoRq EXCEPT !.op = "UserRepo.Delete", !.uid = id],
            [NoRs EXCEPT !.err = r.err])
  /\ UNCHANGED <<hv, heap, mutex, now, sessions, projects, issued, revoked>>

-----------------------------------------------------------------------------
(* AuthServiceImpl.GenerateSessionToken: one write of the session map *)

GenerateSessionToken(p, uid) ==
  LET tok == TokenValue(now, uid) IN
  /\ Free(p)
  /\ tok \in issued \/ Cardinality(issued) < MaxIssued
  /\ sessions' = Put(sessions, tok, NewSessionData(now, uid))
  /\ issued' = issued \cup {tok}
  /\ revoked' = revoked \ {tok}
  /\ Finish(p, [NoRq EXCEPT !.op = "GenerateSessionToken", !.uid = uid],
            [NoRs EXCEPT !.tok = tok])
  /\ UNCHANGED <<hv, heap, mutex, now, users, byEmail, projects>>

-----------------------------------------------------------------------------
(* AuthServiceImpl.VerifySession, access by access *)

(* session, ok := s.sessions[sessionToken] *)
VerifySession_Lookup(p, t) ==
  LET r == [NoRq EXCEPT !.op = "VerifySession", !.tok = t]
      l == [NoLc EXCEPT !.afterTTL = (now >= IssuedAt(t) + SessionTTL),
                        !.afterRevoke = (t \in revoked)]
  IN
  /\ Free(p)
  /\ IF t \in DOMAIN sessions
       THEN Begin(p, r, "v_check", [l EXCEPT !.session = sessions[t]])
       ELSE Finish(p, r, [NoRs EXCEPT !.err = ErrInvalidSession, !.tok = t,
                                      !.afterTTL = l.afterTTL,
                                      !.afterRevoke = l.afterRevoke])
  /\ UNCHANGED <<hv, heap, mutex, now, users, byEmail, sessions, projects, issued, revoked>>

(* the response of Logout; verr is what SessionMiddleware found before it *)
LogoutResult(verr) ==
  [NoRs EXCEPT !.err = verr, !.authenticated = (verr = ErrNone), !.ran = TRUE,
               !.status = 303, !.location = LoginPath,
               !.sessionCookie = ClearCookie(LogoutCookie)]

(* what the request r, with locals l, answers once the session check has  *)
(* ended with error e and user u: a direct call returns them; on a          *)
(* protected route SessionMiddleware sets "authenticated" (and clears the   *)
(* cookie of a session that failed verification) and RequireAuth decides    *)
Result(r, l, e, u) ==
  LET direct == [NoRs EXCEPT !.err = e, !.user = u, !.tok = r.tok,
                             !.afterTTL = l.afterTTL, !.afterRevoke = l.afterRevoke]
      m == SessionMiddleware(r.cookie, e, u)
      g == IF r.op \in GuardedOps THEN RequireAuth(m.authenticated, RoutePath(r.op))
           ELSE [next |-> TRUE, status |-> 200, location |-> <<>>, returnTo |-> <<>>]
  IN
  IF r.op \notin RouteOps THEN direct
  ELSE [direct EXCEPT !.authenticated = m.authenticated,
                      !.user = m.user,
                      !.ran = m.next /\ g.next,
                      !.status = IF m.next THEN g.status ELSE 0,
                      !.location = IF m.next THEN g.location ELSE <<>>,
                      !.returnTo = IF m.next THEN g.returnTo ELSE <<>>,
                      !.sessionCookie = m.sessionCookie]

VerifyResult(p, e, u) == Result(rq[p], lc[p], e, u)

(* the session check of process p ends: the call returns, the protected    *)
(* route answers, or (SessionMiddleware runs on every route) the Logout     *)
(* handler starts                                                           *)
VerifyReturns(p, e, u) ==
  IF rq[p].op = "Logout"
    THEN Goto(p, "lo_inv", [NoLc EXCEPT !.verr = e])
    ELSE Finish(p, rq[p], VerifyResult(p, e, u))

(* if time.Now().After(session.expiresAt) { delete(s.sessions, sessionToken) ... } *)
VerifySession_Expiry(p) ==
  /\ pc[p] = "v_check"
  /\ IF SessionExpired(now, lc[p].session)
       THEN /\ sessions' = Del(sessions, rq[p].tok)
            /\ VerifyReturns(p, ErrSessionExpired, NoUser)
       ELSE /\ Goto(p, "v_user", lc[p])
            /\ UNCHANGED sessions
  /\ UNCHANGED <<hv, heap, mutex, now, users, byEmail, projects, issued, revoked>>

(* VerifySession that drops the session of a user it does not find *)
VerifySession_GetUser_Sweep(p) ==
  LET r == MemoryUserRepository_GetByID(users, lc[p].session.userID) IN
  /\ pc[p] = "v_user"
  /\ IF r.err # "nil"
       THEN /\ sessions' = [t \in {x \in DOMAIN sessions : sessions[x].userID \in DOMAIN users}
                              |-> sessions[t]]
            /\ VerifyReturns(p, r.err, NoUser)
       ELSE /\ Goto(p, "v_touch", [lc[p] EXCEPT !.user = r.user])
            /\ UNCHANGED sessions
  /\ UNCHANGED <<hv, heap, mutex, now, users, byEmail, projects, issued, revoked>>

(* user, err := s.userRepo.GetByID(session.userID) *)
VerifySession_GetUser(p) ==
  LET r == MemoryUserRepository_GetByID(users, lc[p].session.userID) IN
  /\ pc[p] = "v_user"
  /\ IF r.err # ErrNone
       THEN VerifyReturns(p, r.err, NoUser)
       ELSE Goto(p, "v_touch", [lc[p] EXCEPT !.user = r.user])
  /\ UNCHANGED <<hv, heap, mutex, now, users, byEmail, sessions, projects, issued, revoked>>

(* session.lastActive = time.Now(); s.sessions[sessionToken] = session *)
VerifySession_Touch(p) ==
  /\ pc[p] = "v_touch"
  /\ sessions' = Put(sessions, rq[p].tok, [lc[p].session EXCEPT !.lastActive = now])
  /\ VerifyReturns(p, ErrNone, lc[p].user)
  /\ UNCHANGED <<hv, heap, mutex, now, users, byEmail, projects, issued, revoked>>

-----------------------------------------------------------------------------
(* AuthServiceImpl.InvalidateSession, access by access *)

(* if _, ok := s.sessions[sessionToken]; !ok { return nil } *)
InvalidateSession_Lookup(p, t) ==
  LET r == [NoRq EXCEPT !.op = "InvalidateSession", !.tok = t] IN
  /\ Free(p)
  /\ IF t \in DOMAIN sessions
       THEN /\ Begin(p, r, "i_delete", NoLc)
            /\ UNCHANGED revoked
       ELSE /\ Finish(p, r, [NoRs EXCEPT !.tok = t])
            /\ revoked' = revoked \cup {t}
  /\ UNCHANGED <<hv, heap, mutex, now, users, byEmail, sessions, projects, issued>>

(* InvalidateSession that empties the registry *)
InvalidateSession_DeleteAll(p) ==
  /\ pc[p] = "i_delete"
  /\ sessions' = EmptyMap
  /\ revoked' = revoked \cup {rq[p].tok}
  /\ Finish(p, rq[p], [NoRs EXCEPT !.tok = rq[p].tok])
  /\ UNCHANGED <<hv, heap, mutex, now, users, byEmail, projects, issued>>

(* delete(s.sessions, sessionToken) *)
InvalidateSession_Delete(p) ==
  /\ pc[p] = "i_delete"
  /\ sessions' = Del(sessions, rq[p].tok)
  /\ revoked' = revoked \cup {rq[p].tok}
  /\ Finish(p, rq[p], IF rq[p].op = "Logout" THEN LogoutResult(lc[p].verr)
                       ELSE [NoRs EXCEPT !.tok = rq[p].tok])
  /\ UNCHANGED <<hv, heap, mutex, now, users, byEmail, projects, issued>>

-----------------------------------------------------------------------------
(* The Session Registry under concurrent calls *)

(* tokens a caller can present: those issued so far, and a made-up one *)
BogusToken == <<ZeroTime, "bogus">>
Tokens == issued \cup {BogusToken}

InitCommon ==
  /\ hv \in {"part_003", "part_004"}
  /\ heap = EmptyMap
  /\ mutex = [s \in Stores |-> FreeMutex]
  /\ now = 0
  /\ users = NewMemoryUserRepository.users
  /\ byEmail = NewMemoryUserRepository.byEmail
  /\ sessions = EmptyMap
  /\ projects = EmptyMap
  /\ pc = [p \in Procs |-> "idle"]
  /\ rq = [p \in Procs |-> NoRq]
  /\ lc = [p \in Procs |-> NoLc]
  /\ rs = [p \in Procs |-> NoRs]
  /\ issued = {}
  /\ revoked = {}

InitSession == InitCommon /\ hv = "part_003"

NextSession ==
  \/ Tick
  \/ \E p \in Procs :
       \/ CallUserDelete(p, SeedID)
       \/ CallUserCreate(p, SeedUser)
       \/ GenerateSessionToken(p, SeedID)
       \/ \E t \in Tokens : VerifySession_Lookup(p, t)
       \/ VerifySession_Expiry(p)
       \/ VerifySession_GetUser(p)
       \/ VerifySession_Touch(p)
       \/ \E t \in Tokens : InvalidateSession_Lookup(p, t)
       \/ InvalidateSession_Delete(p)
       \/ Return(p)

SpecSession == InitSession /\ [][NextSession]_vars

(* a VerifySession call of process p has just returned *)
Verified(p) == pc[p] = "done" /\ rs[p].op = "VerifySession"

(* C2: once InvalidateSession(t) has returned, every VerifySession(t) that  *)
(* starts afterwards fails, whatever other session calls were in progress   *)
(* when the invalidation ran.                                               *)
C2_InvalidatedTokenNeverVerifies ==
  \A p \in Procs : Verified(p) /\ rs[p].afterRevoke => rs[p].err # ErrNone

(* C5: a successful VerifySession of a token resolves to the user the token *)
(* was issued for, and a VerifySession that starts once the TTL has elapsed *)
(* since the token was issued never resolves to a user.                     *)
C5_TokenResolvesOwnerUntilTTL ==
  \A p \in Procs :
    Verified(p) /\ rs[p].tok \in issued =>
      /\ rs[p].err = ErrNone => rs[p].user.ID = rs[p].tok[2]
      /\ rs[p].afterTTL => rs[p].err # ErrNone

(* C13: VerifySession(t) of a token that is not in the registry fails with   *)
(* the invalid-session error; once it has read t's entry and now >= the     *)
(* entry's expiry, the instant now = expiry included, it fails with the     *)
(* session-expired error and t has no entry when it returns.                *)
C13_ExpiredAtTheInstant ==
  [][ \A p \in Procs :
        /\ (pc[p] = "idle" /\ pc'[p] # "idle" /\ rq'[p].op = "VerifySession"
              /\ rq'[p].tok \notin DOMAIN sessions)
             => /\ pc'[p] = "done"
                /\ rs'[p].err = ErrInvalidSession
        /\ (pc[p] = "v_check" /\ pc'[p] # "v_check" /\ rq[p].op = "VerifySession"
              /\ now >= lc[p].session.expiresAt)
             => /\ pc'[p] = "done"
                /\ rs'[p].err = ErrSessionExpired
                /\ rq[p].tok \notin DOMAIN sessions'
    ]_vars

-----------------------------------------------------------------------------
(* AuthServiceImpl.Authenticate: GetByEmail and Update are two calls of the  *)
(* Identity Store, each under its lock                                      *)

TestPassword == "test-password"
Passwords == {TestPassword, "wrong"}

(* user, err := s.userRepo.GetByEmail(email), then the credential check:   *)
(* the test email passes with any password, any other email with the one   *)
(* accepted password                                                        *)
Authenticate_Check(be, email, password) ==
  LET g == MemoryUserRepository_GetByEmail(be, email) IN
  IF g.err # ErrNone THEN [err |-> ErrInvalidCredentials, user |-> NoUser]
  ELSE IF email = TestEmail THEN [err |-> ErrNone, user |-> g.user]
  ELSE IF password = TestPassword THEN [err |-> ErrNone, user |-> g.user]
  ELSE [err |-> ErrInvalidCredentials, user |-> NoUser]

Authenticate_Lookup(p, email, password) ==
  LET r == [NoRq EXCEPT !.op = "Authenticate", !.email = email, !.pw = password]
      c == Authenticate_Check(byEmail, email, password)
  IN
  /\ Free(p)
  /\ IF c.err # ErrNone
       THEN Finish(p, r, [NoRs EXCEPT !.err = c.err])
       ELSE Begin(p, r, "a_update", [NoLc EXCEPT !.user = c.user])
  /\ UNCHANGED <<hv, heap, mutex, now, users, byEmail, sessions, projects, issued, revoked>>

(* user.LastLogin = time.Now(); s.userRepo.Update(user), its error ignored *)
Authenticate_Update(p) ==
  LET u == [lc[p].user EXCEPT !.LastLogin = now]
      r == MemoryUserRepository_Update(users, byEmail, u)
  IN
  /\ pc[p] = "a_update"
  /\ users' = r.users
  /\ byEmail' = r.byEmail
  /\ IF rq[p].op = "Login"
       THEN Goto(p, "l_token", [lc[p] EXCEPT !.user = u])
       ELSE Finish(p, rq[p], [NoRs EXCEPT !.user = u])
  /\ UNCHANGED <<hv, heap, mutex, now, sessions, projects, issued, revoked>>

-----------------------------------------------------------------------------
(* AuthServiceImpl.RegisterUser: GetByEmail and Create are two calls of the  *)
(* Identity Store                                                           *)

ErrRequired == "email, name, and password are required"

(* input validation, then _, err := s.userRepo.GetByEmail(email) *)
RegisterUser_Check(p, email, name, password, id) ==
  LET r == [NoRq EXCEPT !.op = "RegisterUser", !.email = email, !.name = name,
                        !.pw = password, !.uid = id]
      g == MemoryUserRepository_GetByEmail(byEmail, email)
  IN
  /\ Free(p)
  /\ IF email = "" \/ name = "" \/ password = ""
       THEN Finish(p, r, [NoRs EXCEPT !.err = ErrRequired])
     ELSE IF g.err = ErrNone
       THEN Finish(p, r, [NoRs EXCEPT !.err = ErrEmailAlreadyExists])
     ELSE Begin(p, r, "g_create", NoLc)
  /\ UNCHANGED <<hv, heap, mutex, now, users, byEmail, sessions, projects, issued, revoked>>

(* user := models.NewUser(email, name); s.userRepo.Create(user) *)
RegisterUser_Create(p) ==
  LET u == NewUser(rq[p].uid, rq[p].email)
      r == MemoryUserRepository_Create(users, byEmail, u)
  IN
  /\ pc[p] = "g_create"
  /\ users' = r.users
  /\ byEmail' = r.byEmail
  /\ Finish(p, rq[p], [NoRs EXCEPT !.err = r.err,
                                   !.user = IF r.err = ErrNone THEN u ELSE NoUser])
  /\ UNCHANGED <<hv, heap, mutex, now, sessions, projects, issued, revoked>>

CallUserUpdate(p, u) ==
  LET r == MemoryUserRepository_Update(users, byEmail, u) IN
  /\ Free(p)
  /\ users' = r.users
  /\ byEmail' = r.byEmail
  /\ Finish(p, [NoRq EXCEPT !.op = "UserRepo.Update", !.uid = u.ID, !.email = u.Email],
            [NoRs EXCEPT !.err = r.err])
  /\ UNCHANGED <<hv, heap, mutex, now, sessions, projects, issued, revoked>>

-----------------------------------------------------------------------------
(* The Identity Store and the credential operations under concurrent calls *)

(* utils.GenerateID: an identifier the caller cannot choose *)
NewIDs == {"u1", "u2"}
NewRecords == {NewUser(id, e) : id \in NewIDs, e \in Emails}

InitUsers == InitCommon /\ hv = "part_003"

NextUsers ==
  \E p \in Procs :
    \/ \E u \in NewRecords : CallUserCreate(p, u)
    \/ \E u \in NewRecords \cup {SeedUser} : CallUserUpdate(p, u)
    \/ \E id \in NewIDs \cup {SeedID} : CallUserDelete(p, id)
    \/ \E e \in Emails, pw \in Passwords : Authenticate_Lookup(p, e, pw)
    \/ Authenticate_Update(p)
    \/ \E e \in Emails \cup {""}, id \in NewIDs :
         RegisterUser_Check(p, e, "n", TestPassword, id)
    \/ RegisterUser_Create(p)
    \/ Return(p)

SpecUsers == InitUsers /\ [][NextUsers]_vars

(* C6: Authenticate returns a user or ErrInvalidCredentials, and it returns *)
(* a user only when the password is the accepted one, whatever the email.   *)
C6_WrongPasswordNeverAuthenticates ==
  \A p \in Procs :
    pc[p] = "done" /\ rs[p].op = "Authenticate" =>
      /\ rs[p].err \in {ErrNone, ErrInvalidCredentials}
      /\ rs[p].err = ErrNone => rq[p].pw = TestPassword

(* both indexes hold the same records, one per identifier and per email *)
IndexesAgree ==
  /\ \A i \in DOMAIN users : users[i].ID = i
  /\ DOMAIN byEmail = {users[i].Email : i \in DOMAIN users}
  /\ \A i \in DOMAIN users : byEmail[users[i].Email] = users[i]

(* a Create or RegisterUser call of process p returns in this step *)
CreateReturns(p) ==
  /\ pc[p] # "done"
  /\ pc'[p] = "done"
  /\ rs'[p].op \in {"UserRepo.Create", "RegisterUser"}

(* C7: a Create or RegisterUser of a record whose email is held by a stored *)
(* user with another identifier fails with the duplicate-email error and    *)
(* leaves both indexes as they were; one that succeeds found the email      *)
(* free; so of two records with the same email at most one is stored, in    *)
(* every interleaving, and the indexes keep the first one's entries.        *)
C7_DuplicateEmailRejected ==
  [][ /\ IndexesAgree'
      /\ \A p \in Procs :
           CreateReturns(p) =>
             LET id == rq'[p].uid
                 e == rq'[p].email
             IN
             /\ (e \in DOMAIN byEmail /\ byEmail[e].ID # id /\ id \notin DOMAIN users)
                  => /\ rs'[p].err = ErrEmailAlreadyExists
                     /\ users' = users
                     /\ byEmail' = byEmail
             /\ rs'[p].err = ErrNone
                  => /\ e \notin DOMAIN byEmail
                     /\ users' = Put(users, id, NewUser(id, e))
                     /\ byEmail' = Put(byEmail, e, NewUser(id, e))
    ]_vars

(* a create of a second record with a stored email has been refused *)
C7_Witness ==
  \E p \in Procs :
    /\ pc[p] = "done"
    /\ rs[p].op \in {"UserRepo.Create", "RegisterUser"}
    /\ rs[p].err = ErrEmailAlreadyExists
    /\ rq[p].uid \notin DOMAIN users
    /\ rq[p].email \in DOMAIN byEmail
    /\ byEmail[rq[p].email].ID # rq[p].uid

-----------------------------------------------------------------------------
(* ProjectServiceImpl: the service makes one repository call per step       *)

(* the operations a test or another package calls directly, not over HTTP *)
DirectOps == {"ProjectService.CreateProject", "ProjectService.UpdateProject",
              "ProjectService.DeleteProject", "ProjectRepo.Update"}

(* what the operation op answers: the error for a direct call, the HTTP    *)
(* status for a handler (500 on a service error)                            *)
Response(op, err, okStatus) ==
  IF op \in DirectOps THEN [NoRs EXCEPT !.err = err]
  ELSE [NoRs EXCEPT !.status = IF err = ErrNone THEN okStatus ELSE 500]

(* CreateProject: validation, timestamps, identifier, then repo.Create *)
ProjectServiceImpl_CreateProject(ps, project, t, freshID) ==
  IF project.Name = "" THEN [err |-> ErrNameEmpty, projects |-> ps]
  ELSE LET pr == [project EXCEPT !.CreatedAt = t, !.UpdatedAt = t,
                                 !.ID = IF @ = "" THEN freshID ELSE @]
           r == MemoryProjectRepository_Create(ps, pr)
       IN  [err |-> IF r.err = ErrNone THEN ErrNone
                    ELSE Wrap("failed to create project", r.err),
            projects |-> r.projects]

(* UpdateProject up to its write: repo.GetByID, the name check, and the    *)
(* creation time taken from the stored project                              *)
UpdateProject_Check(ps, project) ==
  LET g == MemoryProjectRepository_GetByID(ps, project.ID) IN
  IF g.err # ErrNone
    THEN [err |-> Wrap("failed to get existing project", g.err), project |-> project]
  ELSE IF project.Name = ""
    THEN [err |-> ErrNameEmpty, project |-> project]
  ELSE [err |-> ErrNone, project |-> [project EXCEPT !.CreatedAt = g.project.CreatedAt]]

(* a direct call of UpdateProject(project): its first repository call *)
ProjectServiceImpl_UpdateProject(p, project) ==
  LET r == [NoRq EXCEPT !.op = "ProjectService.UpdateProject", !.pid = project.ID,
                        !.name = project.Name, !.desc = project.Description,
                        !.uid = project.UserID]
      c == UpdateProject_Check(projects, project)
  IN
  /\ Free(p)
  /\ IF c.err # ErrNone
       THEN Finish(p, r, Response(r.op, c.err, 0))
       ELSE Begin(p, r, "u_put", [NoLc EXCEPT !.project = c.project])
  /\ UNCHANGED <<hv, heap, mutex, now, users, byEmail, sessions, projects, issued, revoked>>

(* project.UpdatedAt = time.Now(); s.repo.Update(project) *)
ProjectServiceImpl_UpdateProject_Put(p) ==
  LET r == MemoryProjectRepository_Update(projects, [lc[p].project EXCEPT !.UpdatedAt = now])
      e == IF r.err = ErrNone THEN ErrNone ELSE Wrap("failed to update project", r.err)
  IN
  /\ pc[p] = "u_put"
  /\ projects' = r.projects
  /\ Finish(p, rq[p], Response(rq[p].op, e, IF rq[p].op = "UpdateProject" /\ hv = "part_003"
                                             THEN 303 ELSE 200))
  /\ UNCHANGED <<hv, heap, mutex, now, users, byEmail, sessions, issued, revoked>>

(* DeleteProject up to its write: repo.GetByID *)
DeleteProject_Check(ps, id) ==
  LET g == MemoryProjectRepository_GetByID(ps, id) IN
  IF g.err # ErrNone THEN Wrap("failed to get project for deletion", g.err) ELSE ErrNone

(* a direct call of DeleteProject(id): its first repository call *)
ProjectServiceImpl_DeleteProject(p, id) ==
  LET r == [NoRq EXCEPT !.op = "ProjectService.DeleteProject", !.pid = id]
      e == DeleteProject_Check(projects, id)
  IN
  /\ Free(p)
  /\ IF e # ErrNone
       THEN Finish(p, r, Response(r.op, e, 0))
       ELSE Begin(p, r, "d_del", NoLc)
  /\ UNCHANGED <<hv, heap, mutex, now, users, byEmail, sessions, projects, issued, revoked>>

(* s.repo.Delete(id) *)
ProjectServiceImpl_DeleteProject_Delete(p) ==
  LET r == MemoryProjectRepository_Delete(projects, rq[p].pid)
      e == IF r.err = ErrNone THEN ErrNone ELSE Wrap("failed to delete project", r.err)
  IN
  /\ pc[p] = "d_del"
  /\ projects' = r.projects
  /\ Finish(p, rq[p], Response(rq[p].op, e, IF rq[p].op = "DeleteProject" /\ hv = "part_003"
                                             THEN 303 ELSE 200))
  /\ UNCHANGED <<hv, heap, mutex, now, users, byEmail, sessions, issued, revoked>>

(* a direct call of CreateProject(project) *)
CallCreateProject(p, project, freshID) ==
  LET r == ProjectServiceImpl_CreateProject(projects, project, now, freshID) IN
  /\ Free(p)
  /\ projects' = r.projects
  /\ Finish(p, [NoRq EXCEPT !.op = "ProjectService.CreateProject", !.pid = project.ID,
                            !.name = project.Name, !.desc = project.Description,
                            !.uid = project.UserID],
            Response("ProjectService.CreateProject", r.err, 0))
  /\ UNCHANGED <<hv, heap, mutex, now, users, byEmail, sessions, issued, revoked>>

(* a direct call of MemoryProjectRepository.Update(project) *)
CallProjectUpdate(p, project) ==
  LET r == MemoryProjectRepository_Update(projects, project) IN
  /\ Free(p)
  /\ projects' = r.projects
  /\ Finish(p, [NoRq EXCEPT !.op = "ProjectRepo.Update", !.pid = project.ID,
                            !.name = project.Name, !.desc = project.Description,
                            !.uid = project.UserID],
            Response("ProjectRepo.Update", r.err, 0))
  /\ UNCHANGED <<hv, heap, mutex, now, users, byEmail, sessions, issued, revoked>>

-----------------------------------------------------------------------------
(* The Project Store and ProjectServiceImpl under concurrent direct calls *)

ProjectIDs == {"p1"}
Names == {"n1", "n2"}

(* the project values a caller passes: any identifier, name and owner *)
ArgProjects ==
  {NewProject(id, n, "d", o, ZeroTime) : id \in ProjectIDs \cup {""},
                                         n \in Names \cup {""}, o \in UserIDs}

InitProject == InitCommon /\ hv = "part_003"

NextProject ==
  \/ Tick
  \/ \E p \in Procs :
       \/ \E a \in ArgProjects, id \in ProjectIDs : CallCreateProject(p, a, id)
       \/ \E a \in ArgProjects : ProjectServiceImpl_UpdateProject(p, a)
       \/ ProjectServiceImpl_UpdateProject_Put(p)
       \/ \E id \in ProjectIDs : ProjectServiceImpl_DeleteProject(p, id)
       \/ ProjectServiceImpl_DeleteProject_Delete(p)
       \/ \E a \in ArgProjects : CallProjectUpdate(p, a)
       \/ Return(p)

SpecProject == InitProject /\ [][NextProject]_vars

(* C8: no step of ProjectService.UpdateProject or of the repository Update, *)
(* whatever UserID its argument carries, changes the UserID of a stored     *)
(* project.                                                                 *)
C8_UpdateKeepsOwner ==
  [][ \A p \in Procs :
        /\ pc'[p] # pc[p]
        /\ rq'[p].op \in {"ProjectService.UpdateProject", "ProjectRepo.Update"}
        => \A id \in DOMAIN projects \cap DOMAIN projects' :
             projects'[id].UserID = projects[id].UserID
    ]_vars

-----------------------------------------------------------------------------
(* Project handlers. The caller is the user the Access Gate put into the    *)
(* request context; a handler step is one call of the Project Store.        *)

(* who owns the project the request names, as the caller sees it on arrival *)
Relation(ps, id, caller) ==
  IF id \notin DOMAIN ps THEN "absent"
  ELSE IF ps[id].UserID = caller THEN "owner" ELSE "foreign"

HandlerRq(op, caller, id, name, description) ==
  [NoRq EXCEPT !.op = op, !.uid = caller, !.pid = id, !.name = name,
               !.desc = description, !.rel = Relation(projects, id, caller)]

(* a handler that looks the project up and renders it; checks tells whether *)
(* it compares project.UserID with user.ID                                  *)
ReadProject(p, op, caller, id, checks) ==
  LET r == HandlerRq(op, caller, id, "", "")
      g == MemoryProjectRepository_GetByID(projects, id)
      status == IF g.err # ErrNone THEN 404
                ELSE IF checks /\ g.project.UserID # caller THEN 403
                ELSE 200
  IN
  /\ Free(p)
  /\ Finish(p, r, [NoRs EXCEPT !.status = status])
  /\ UNCHANGED <<hv, heap, mutex, now, users, byEmail, sessions, projects, issued, revoked>>

Handler_GetProject(p, caller, id) == ReadProject(p, "GetProject", caller, id, FALSE)
Handler_APIGetProject(p, caller, id) ==
  ReadProject(p, "APIGetProject", caller, id, hv = "part_003")
Handler_ArchitectureCanvas(p, caller, id) ==
  ReadProject(p, "ArchitectureCanvas", caller, id, hv = "part_003")
Handler_StoryFlow(p, caller, id) == ReadProject(p, "StoryFlow", caller, id, hv = "part_003")
Handler_TaskHub(p, caller, id) == ReadProject(p, "TaskHub", caller, id, hv = "part_003")
Handler_ReviewQueue(p, caller, id) ==
  ReadProject(p, "ReviewQueue", caller, id, hv = "part_003")
Handler_DesignAssistant(p, caller, id) ==
  ReadProject(p, "DesignAssistant", caller, id, hv = "part_003")

(* the owner CreateProject gives a project: user.ID, or the placeholder *)
PlaceholderUser == "test-user"
CreateOwner(caller) == IF hv = "part_003" THEN caller ELSE PlaceholderUser

Handler_CreateProject(p, caller, name, description, id) ==
  LET r == [HandlerRq("CreateProject", caller, id, name, description) EXCEPT !.rel = ""]
      c == ProjectServiceImpl_CreateProject(
             projects, NewProject(id, name, description, CreateOwner(caller), now), now, id)
  IN
  /\ Free(p)
  /\ IF name = ""
       THEN /\ Finish(p, r, [NoRs EXCEPT !.status = 400])
            /\ UNCHANGED projects
       ELSE /\ projects' = c.projects
            /\ Finish(p, r, Response(r.op, c.err, 303))
  /\ UNCHANGED <<hv, heap, mutex, now, users, byEmail, sessions, issued, revoked>>

(* APICreateProject: the body must bind (name is required), the owner is  *)
(* user.ID in part_003 and the placeholder in part_004; 201 on success      *)
Handler_APICreateProject(p, caller, name, description, id) ==
  LET r == [HandlerRq("APICreateProject", caller, id, name, description) EXCEPT !.rel = ""]
      c == ProjectServiceImpl_CreateProject(
             projects, NewProject(id, name, description, CreateOwner(caller), now), now, id)
  IN
  /\ Free(p)
  /\ IF name = ""
       THEN /\ Finish(p, r, [NoRs EXCEPT !.status = 400])
            /\ UNCHANGED projects
       ELSE /\ projects' = c.projects
            /\ Finish(p, r, Response(r.op, c.err, 201))
  /\ UNCHANGED <<hv, heap, mutex, now, users, byEmail, sessions, issued, revoked>>

(* the fields an update request overwrites: the non-empty ones *)
Edited(project, name, description) ==
  [project EXCEPT !.Name = IF name # "" THEN name ELSE @,
                  !.Description = IF description # "" THEN description ELSE @]

(* the first step of UpdateProject and APIUpdateProject: GetProject, the   *)
(* ownership check where the handler has one, and the parsing of the body   *)
UpdateEntry(p, op, caller, id, name, description, checks, parses, bad) ==
  LET r == [HandlerRq(op, caller, id, name, description) EXCEPT !.bad = parses /\ bad]
      g == MemoryProjectRepository_GetByID(projects, id)
  IN
  /\ Free(p)
  /\ IF g.err # ErrNone THEN Finish(p, r, [NoRs EXCEPT !.status = 404])
     ELSE IF checks /\ g.project.UserID # caller
       THEN Finish(p, r, [NoRs EXCEPT !.status = 403])
     ELSE IF parses /\ bad THEN Finish(p, r, [NoRs EXCEPT !.status = 400])
     ELSE Begin(p, r, "u_get",
                [NoLc EXCEPT !.project = Edited(g.project, name, description)])
  /\ UNCHANGED <<hv, heap, mutex, now, users, byEmail, sessions, projects, issued, revoked>>

Handler_UpdateProject(p, caller, id, name, description, bad) ==
  UpdateEntry(p, "UpdateProject", caller, id, name, description,
              hv = "part_003", hv = "part_004", bad)

Handler_APIUpdateProject(p, caller, id, name, description, bad) ==
  UpdateEntry(p, "APIUpdateProject", caller, id, name, description,
              hv = "part_003", TRUE, bad)

(* h.projectService.UpdateProject(project), first repository call *)
ProjectServiceImpl_UpdateProject_Get(p) ==
  LET c == UpdateProject_Check(projects, lc[p].project) IN
  /\ pc[p] = "u_get"
  /\ IF c.err # ErrNone
       THEN Finish(p, rq[p], Response(rq[p].op, c.err, 0))
       ELSE Goto(p, "u_put", [lc[p] EXCEPT !.project = c.project])
  /\ UNCHANGED <<hv, heap, mutex, now, users, byEmail, sessions, projects, issued, revoked>>

(* a delete handler that calls the service without looking the project up *)
DeleteEntry_NoLookup(p, op, caller, id, notFound) ==
  LET r == HandlerRq(op, caller, id, "", "")
      e == DeleteProject_Check(projects, id)
  IN
  /\ Free(p)
  /\ IF e # "nil" THEN Finish(p, r, Response(op, e, 0))
     ELSE Begin(p, r, "d_del", NoLc)
  /\ UNCHANGED <<hv, heap, mutex, now, users, byEmail, sessions, projects, issued, revoked>>

(* the first step of DeleteProject and APIDeleteProject. part_003 looks the *)
(* project up first: the HTML handler refuses only if the lookup succeeded  *)
(* and the owner differs, the API handler answers 404 if it failed.         *)
(* part_004 calls the service at once.                                      *)
DeleteEntry(p, op, caller, id, notFound) ==
  LET r == HandlerRq(op, caller, id, "", "")
      g == MemoryProjectRepository_GetByID(projects, id)
      e == DeleteProject_Check(projects, id)
  IN
  /\ Free(p)
  /\ IF hv = "part_003"
       THEN IF g.err # ErrNone /\ notFound THEN Finish(p, r, [NoRs EXCEPT !.status = 404])
            ELSE IF g.err = ErrNone /\ g.project.UserID # caller
              THEN Finish(p, r, [NoRs EXCEPT !.status = 403])
            ELSE Begin(p, r, "d_get", NoLc)
       ELSE IF e # ErrNone THEN Finish(p, r, Response(op, e, 0))
            ELSE Begin(p, r, "d_del", NoLc)
  /\ UNCHANGED <<hv, heap, mutex, now, users, byEmail, sessions, projects, issued, revoked>>

Handler_DeleteProject(p, caller, id) == DeleteEntry(p, "DeleteProject", caller, id, FALSE)
Handler_APIDeleteProject(p, caller, id) ==
  DeleteEntry(p, "APIDeleteProject", caller, id, TRUE)

(* h.projectService.DeleteProject(id), first repository call *)
ProjectServiceImpl_DeleteProject_Get(p) ==
  LET e == DeleteProject_Check(projects, rq[p].pid) IN
  /\ pc[p] = "d_get"
  /\ IF e # ErrNone
       THEN Finish(p, rq[p], Response(rq[p].op, e, 0))
       ELSE Goto(p, "d_del", lc[p])
  /\ UNCHANGED <<hv, heap, mutex, now, users, byEmail, sessions, projects, issued, revoked>>

-----------------------------------------------------------------------------
(* The project handlers under concurrent requests of two users *)

Callers == UserIDs

InitOwner == InitCommon

NextOwner ==
  \E p \in Procs :
    \/ \E c \in Callers, id \in ProjectIDs :
         \/ Handler_GetProject(p, c, id)
         \/ Handler_APIGetProject(p, c, id)
         \/ Handler_ArchitectureCanvas(p, c, id)
         \/ Handler_StoryFlow(p, c, id)
         \/ Handler_TaskHub(p, c, id)
         \/ Handler_ReviewQueue(p, c, id)
         \/ Handler_DesignAssistant(p, c, id)
         \/ Handler_DeleteProject(p, c, id)
         \/ Handler_APIDeleteProject(p, c, id)
         \/ \E n \in {"n1", ""} : Handler_CreateProject(p, c, n, "d", id)
         \/ \E n \in {"n1", ""} : Handler_APICreateProject(p, c, n, "d", id)
         \/ \E n \in {"n2", ""}, d \in {"d2", ""}, bad \in BOOLEAN :
              \/ Handler_UpdateProject(p, c, id, n, d, bad)
              \/ Handler_APIUpdateProject(p, c, id, n, d, bad)
    \/ ProjectServiceImpl_UpdateProject_Get(p)
    \/ ProjectServiceImpl_UpdateProject_Put(p)
    \/ ProjectServiceImpl_DeleteProject_Get(p)
    \/ ProjectServiceImpl_DeleteProject_Delete(p)
    \/ Return(p)

SpecOwner == InitOwner /\ [][NextOwner]_vars

ModifyHandlers == {"UpdateProject", "DeleteProject", "APIUpdateProject", "APIDeleteProject"}
ReadHandlers == {"GetProject", "APIGetProject", "ArchitectureCanvas", "StoryFlow",
                 "TaskHub", "ReviewQueue", "DesignAssistant"}

(* C1: an update or delete request of a caller who is not the owner of the  *)
(* project it names changes nothing in the Project Store and is answered    *)
(* 403.                                                                     *)
C1_ForeignModifyForbidden ==
  [][ \A p \in Procs :
        /\ pc'[p] # pc[p]
        /\ rq'[p].op \in ModifyHandlers
        /\ rq'[p].rel = "foreign"
        => /\ projects' = projects
           /\ pc'[p] = "done" => rs'[p].status = 403
    ]_vars

(* C3: every handler that returns a project looked up by id answers 403 to  *)
(* a caller who is not its owner and 200 to its owner.                      *)
C3_ReadChecksOwner ==
  \A p \in Procs :
    pc[p] = "done" /\ rs[p].op \in ReadHandlers =>
      /\ rq[p].rel = "foreign" => rs[p].status = 403
      /\ rq[p].rel = "owner" => rs[p].status = 200

-----------------------------------------------------------------------------
(* HTTP requests through the Access Gate. SessionMiddleware runs on every   *)
(* route, RequireAuth on the protected ones. A request carries at most one  *)
(* session cookie: its name and the token in it.                            *)

(* the ghost flags of a request that presents token t *)
Arrival(t) ==
  [NoLc EXCEPT !.afterTTL = (now >= IssuedAt(t) + SessionTTL),
               !.afterRevoke = (t \in revoked)]

(* a request of a protected route: the cookie lookup of SessionMiddleware  *)
(* and, if the cookie is there, the map read of VerifySession               *)
Request_Protected(p, cookie, t) ==
  LET r == [NoRq EXCEPT !.op = "Protected", !.cookie = cookie, !.tok = t]
      l == Arrival(t)
  IN
  /\ Free(p)
  /\ IF cookie # GateCookie THEN Finish(p, r, Result(r, l, ErrNoCookie, NoUser))
     ELSE IF t \in DOMAIN sessions
       THEN Begin(p, r, "v_check", [l EXCEPT !.session = sessions[t]])
     ELSE Finish(p, r, Result(r, l, ErrInvalidSession, NoUser))
  /\ UNCHANGED <<hv, heap, mutex, now, users, byEmail, sessions, projects, issued, revoked>>

(* a request of a JSON endpoint behind RequireAuth (op "ProtectedAPI") or  *)
(* of a route without RequireAuth (op "Public"): the same first step        *)
Request_Route(p, op, cookie, t) ==
  LET r == [NoRq EXCEPT !.op = op, !.cookie = cookie, !.tok = t]
      l == Arrival(t)
  IN
  /\ Free(p)
  /\ IF cookie # GateCookie THEN Finish(p, r, Result(r, l, ErrNoCookie, NoUser))
     ELSE IF t \in DOMAIN sessions
       THEN Begin(p, r, "v_check", [l EXCEPT !.session = sessions[t]])
     ELSE Finish(p, r, Result(r, l, ErrInvalidSession, NoUser))
  /\ UNCHANGED <<hv, heap, mutex, now, users, byEmail, sessions, projects, issued, revoked>>

Request_API(p, cookie, t) == Request_Route(p, "ProtectedAPI", cookie, t)
Request_Public(p, cookie, t) == Request_Route(p, "Public", cookie, t)

(* GET /auth/logout: SessionMiddleware first, then the Logout handler *)
Request_Logout(p, cookie, t) ==
  LET r == [NoRq EXCEPT !.op = "Logout", !.cookie = cookie, !.tok = t] IN
  /\ Free(p)
  /\ IF cookie # GateCookie
       THEN Begin(p, r, "lo_inv", [NoLc EXCEPT !.verr = ErrNoCookie])
     ELSE IF t \in DOMAIN sessions
       THEN Begin(p, r, "v_check", [Arrival(t) EXCEPT !.session = sessions[t]])
     ELSE Begin(p, r, "lo_inv", [NoLc EXCEPT !.verr = ErrInvalidSession])
  /\ UNCHANGED <<hv, heap, mutex, now, users, byEmail, sessions, projects, issued, revoked>>

(* the names under which a request can carry its session token *)
SessionCookies == {GateCookie, LoginCookie, LogoutCookie}

(* Logout: token, err := c.Cookie(...), then the map read of               *)
(* InvalidateSession; without the cookie only the response is written      *)
Logout_Invalidate(p) ==
  /\ pc[p] = "lo_inv"
  /\ IF rq[p].cookie = LogoutCookie /\ rq[p].tok \in DOMAIN sessions
       THEN /\ Goto(p, "i_delete", lc[p])
            /\ UNCHANGED revoked
       ELSE /\ Finish(p, rq[p], LogoutResult(lc[p].verr))
            /\ revoked' = IF rq[p].cookie \in SessionCookies
                            THEN revoked \cup {rq[p].tok} ELSE revoked
  /\ UNCHANGED <<hv, heap, mutex, now, users, byEmail, sessions, projects, issued>>

(* HasPrefix(returnTo, "/") && !Contains(returnTo, "://") *)
SafeReturn(u) ==
  /\ Len(u) > 0
  /\ u[1] = "/"
  /\ \A i \in 1..Len(u) : u[i] # "://"

(* the lifetime Login gives the session cookie, in seconds *)
LoginMaxAge(remember) ==
  IF hv = "part_003" THEN (IF remember THEN 7 * 24 * 3600 ELSE 3600)
  ELSE (IF remember THEN 60 * 60 * 24 * 30 ELSE 60 * 60 * 24)

(* what Login answers when the form is incomplete or Authenticate fails *)
LoginFailed(missing) ==
  IF hv = "part_003"
    THEN [NoRs EXCEPT !.ran = TRUE, !.status = 303, !.location = LoginPath \o <<"?error=">>,
                      !.err = IF missing THEN ErrNone ELSE ErrInvalidCredentials]
    ELSE [NoRs EXCEPT !.ran = TRUE, !.status = IF missing THEN 400 ELSE 401,
                      !.err = IF missing THEN ErrNone ELSE ErrInvalidCredentials]

(* where Login sends the browser: part_004 honours a safe return_to cookie *)
LoginRedirect(returnTo) ==
  IF hv = "part_004" /\ returnTo # <<>> /\ SafeReturn(returnTo) THEN returnTo ELSE RootPath

(* POST /auth/login, posted without a session cookie: the form check and   *)
(* the first repository call of Authenticate                                *)
Request_Login(p, email, password, remember, returnTo) ==
  LET r == [NoRq EXCEPT !.op = "Login", !.email = email, !.pw = password,
                        !.remember = remember, !.returnTo = returnTo]
      c == Authenticate_Check(byEmail, email, password)
      pending == {q \in Procs : rq[q].op = "Login" /\ pc[q] \in {"a_update", "l_token"}}
  IN
  /\ Free(p)
  /\ Cardinality(issued) + Cardinality(pending) < MaxIssued
  /\ IF email = "" \/ password = "" THEN Finish(p, r, LoginFailed(TRUE))
     ELSE IF c.err # ErrNone THEN Finish(p, r, LoginFailed(FALSE))
     ELSE Begin(p, r, "a_update", [NoLc EXCEPT !.user = c.user])
  /\ UNCHANGED <<hv, heap, mutex, now, users, byEmail, sessions, projects, issued, revoked>>

(* h.authService.GenerateSessionToken(user), c.SetCookie, c.Redirect *)
Login_Token(p) ==
  LET tok == TokenValue(now, lc[p].user.ID) IN
  /\ pc[p] = "l_token"
  /\ sessions' = Put(sessions, tok, NewSessionData(now, lc[p].user.ID))
  /\ issued' = issued \cup {tok}
  /\ revoked' = revoked \ {tok}
  /\ Finish(p, rq[p],
            [NoRs EXCEPT !.ran = TRUE, !.status = 303, !.user = lc[p].user, !.tok = tok,
                         !.location = LoginRedirect(rq[p].returnTo),
                         !.clearsReturnTo = (hv = "part_004" /\ rq[p].returnTo # <<>>),
                         !.sessionCookie = [name |-> LoginCookie, value |-> tok,
                                            maxAge |-> LoginMaxAge(rq[p].remember)]])
  /\ UNCHANGED <<hv, heap, mutex, now, users, byEmail, projects>>

-----------------------------------------------------------------------------
(* The Access Gate under concurrent requests *)

CookieNames == {"session", "session_token"}
ReturnTos == {<<>>, ProtectedPath, <<"http", "://", "evil.example">>,
              <<"/", "/", "evil.example">>}

InitGate == InitCommon

NextGate ==
  \E p \in Procs :
       \/ \E e \in Emails \cup {""}, pw \in Passwords, m \in BOOLEAN, u \in ReturnTos :
            Request_Login(p, e, pw, m, u)
       \/ Authenticate_Update(p)
       \/ Login_Token(p)
       \/ CallUserDelete(p, SeedID)
       \/ Request_Protected(p, "", NoToken)
       \/ \E c \in CookieNames, t \in Tokens : Request_Protected(p, c, t)
       \/ Request_API(p, "", NoToken)
       \/ \E c \in CookieNames, t \in Tokens : Request_API(p, c, t)
       \/ VerifySession_Expiry(p)
       \/ VerifySession_GetUser(p)
       \/ VerifySession_Touch(p)
       \/ Request_Logout(p, "", NoToken)
       \/ \E c \in CookieNames, t \in Tokens : Request_Logout(p, c, t)
       \/ Logout_Invalidate(p)
       \/ InvalidateSession_Delete(p)
       \/ Return(p)

SpecGate == InitGate /\ [][NextGate]_vars

(* a request of a protected route by process p has been answered *)
Answered(p) == pc[p] = "done" /\ rs[p].op = "Protected"

(* C4: a request of a protected route that carries no session cookie, or a  *)
(* token that fails verification, never reaches the handler: it is          *)
(* redirected to /auth/login and the chain is aborted.                      *)
C4_AnonymousNeverReachesHandler ==
  \A p \in Procs :
    Answered(p) /\ (rq[p].cookie # GateCookie \/ rs[p].err # ErrNone) =>
      /\ ~rs[p].ran
      /\ rs[p].status = 302
      /\ rs[p].location = LoginPath

(* a token that was issued has failed verification and been refused *)
C4_Witness ==
  \E p \in Procs :
    /\ Answered(p)
    /\ rq[p].cookie = GateCookie
    /\ rq[p].tok \in issued
    /\ rs[p].err \in {ErrInvalidSession, ErrUserNotFound}
    /\ ~rs[p].ran
    /\ rs[p].status = 302

(* C9: a token that was issued for a stored user and not logged out,        *)
(* presented on a protected route in the cookie Login writes, is resolved   *)
(* to its user and the request reaches the handler (200).                   *)
C9_LoginCookieResolved ==
  \A p \in Procs :
    Answered(p) /\ rq[p].cookie = LoginCookie /\ rq[p].tok \in issued
                /\ ~rs[p].afterRevoke /\ rq[p].tok \notin revoked
                /\ rq[p].tok[2] \in DOMAIN users =>
      /\ rs[p].ran
      /\ rs[p].status = 200
      /\ rs[p].user.ID = rq[p].tok[2]

(* C10: once Logout has answered a request that carried token t in a        *)
(* session cookie, t is not in the Session Registry and the response        *)
(* clears that cookie with MaxAge -1; a later request of a protected route  *)
(* with t is redirected to the login page and does not reach the handler.   *)
C10_LogoutEndsSession ==
  \A p \in Procs :
    /\ pc[p] = "done" /\ rs[p].op = "Logout" /\ rq[p].cookie \in SessionCookies
                      /\ rq[p].tok \in issued =>
         /\ rq[p].tok \notin DOMAIN sessions
         /\ rs[p].sessionCookie = ClearCookie(rq[p].cookie)
    /\ Answered(p) /\ rs[p].afterRevoke =>
         /\ ~rs[p].ran
         /\ rs[p].status = 302

-----------------------------------------------------------------------------
(* MemoryProjectRepository.List and ProjectServiceImpl.ListProjects          *)

(* the orders in which one range over a Go map can visit the keys ks *)
RECURSIVE Orders(_)
Orders(ks) ==
  IF ks = {} THEN {<<>>}
  ELSE UNION {{<<k>> \o o : o \in Orders(ks \ {k})} : k \in ks}

(* List that appends every project it visits, whoever owns it *)
List_NoFilter(ps, userID, order) ==
  LET Scan[i \in 0..Len(order)] ==
        IF i = 0 THEN <<>> ELSE Append(Scan[i - 1], ps[order[i]])
  IN  [err |-> "nil", projects |-> Scan[Len(order)]]

(* for _, project := range r.projects { if project.UserID == userID {       *)
(* projectCopy := *project; userProjects = append(userProjects, ...) } }    *)
MemoryProjectRepository_List(ps, userID, order) ==
  LET Scan[i \in 0..Len(order)] ==
        IF i = 0 THEN <<>>
        ELSE IF ps[order[i]].UserID = userID THEN Append(Scan[i - 1], ps[order[i]])
        ELSE Scan[i - 1]
  IN  [err |-> ErrNone, projects |-> Scan[Len(order)]]

(* a direct call of ListProjects(userID): one call of repo.List *)
ProjectServiceImpl_ListProjects(p, userID) ==
  \E order \in Orders(DOMAIN projects) :
    LET r == MemoryProjectRepository_List(projects, userID, order) IN
    /\ Free(p)
    /\ Finish(p, [NoRq EXCEPT !.op = "ProjectService.ListProjects", !.uid = userID],
              [NoRs EXCEPT !.err = IF r.err = ErrNone THEN ErrNone
                                   ELSE Wrap("failed to list projects", r.err),
                           !.list = r.projects])
    /\ UNCHANGED <<hv, heap, mutex, now, users, byEmail, sessions, projects, issued, revoked>>

-----------------------------------------------------------------------------
(* The Project Store with the projects of two owners under concurrent calls *)

ListIDs == {"p1", "p2", "p3"}

(* the project values the callers pass *)
ListArgs == {NewProject(id, "n1", "d", o, ZeroTime) : id \in ListIDs, o \in UserIDs}

InitList == InitCommon /\ hv = "part_003"

NextList ==
  \E p \in Procs :
    \/ \E a \in ListArgs : CallCreateProject(p, a, a.ID)
    \/ \E a \in ListArgs : CallProjectUpdate(p, a)
    \/ \E id \in ListIDs : ProjectServiceImpl_DeleteProject(p, id)
    \/ ProjectServiceImpl_DeleteProject_Delete(p)
    \/ \E o \in UserIDs : ProjectServiceImpl_ListProjects(p, o)
    \/ Return(p)

SpecList == InitList /\ [][NextList]_vars

(* the identifiers of the stored projects whose owner is userID *)
OwnedBy(ps, userID) == {id \in DOMAIN ps : ps[id].UserID = userID}

(* a ListProjects call of process p has just returned *)
Listed(p) == pc[p] = "done" /\ rs[p].op = "ProjectService.ListProjects"

-----------------------------------------------------------------------------
(* Values that cross the boundary of the stores. A repository copies the    *)
(* struct (projectCopy := *project, userCopy := *user): the scalar fields   *)
(* are copied, a slice field is copied as the address of its backing array. *)
(* While a call is "done" its caller holds the value it passed or received  *)
(* in rs and can write to it.                                               *)

(* backing arrays allocated in one run *)
MaxArrays == 2

SliceFields == {"Features", "TechStack"}

(* the elements of the slice at address a *)
Deref(h, a) == IF a = NilSlice THEN <<>> ELSE h[a]

(* the caller builds a project whose slice field f has one element *)
WithSlice(project, f, a) ==
  IF f = "Features" THEN [project EXCEPT !.Features = a]
  ELSE [project EXCEPT !.TechStack = a]

(* the caller allocates a project value and passes it to Create or Update, *)
(* which stores a copy of the struct; the caller keeps its value            *)
StoreProject(p, op, project, f) ==
  LET a == Cardinality(DOMAIN heap) + 1
      arg == WithSlice(project, f, a)
      r == IF op = "ProjectRepo.Create"
             THEN MemoryProjectRepository_Create(projects, arg)
             ELSE MemoryProjectRepository_Update(projects, arg)
  IN
  /\ Free(p)
  /\ a <= MaxArrays
  /\ heap' = Put(heap, a, <<"f1">>)
  /\ projects' = r.projects
  /\ Finish(p, [NoRq EXCEPT !.op = op, !.pid = project.ID, !.name = project.Name,
                            !.desc = project.Description, !.uid = project.UserID],
            [NoRs EXCEPT !.err = r.err, !.project = arg])
  /\ UNCHANGED <<hv, mutex, now, users, byEmail, sessions, issued, revoked>>

CallProjectCreate(p, project, f) == StoreProject(p, "ProjectRepo.Create", project, f)
CallProjectUpdateSlice(p, project, f) == StoreProject(p, "ProjectRepo.Update", project, f)

(* a direct call of MemoryProjectRepository.GetByID(id) *)
CallProjectGetByID(p, id) ==
  LET r == MemoryProjectRepository_GetByID(projects, id) IN
  /\ Free(p)
  /\ Finish(p, [NoRq EXCEPT !.op = "ProjectRepo.GetByID", !.pid = id],
            [NoRs EXCEPT !.err = r.err, !.project = r.project])
  /\ UNCHANGED <<hv, heap, mutex, now, users, byEmail, sessions, projects, issued, revoked>>

(* direct calls of MemoryUserRepository.GetByID(id) and GetByEmail(email) *)
CallUserGetByID(p, id) ==
  LET r == MemoryUserRepository_GetByID(users, id) IN
  /\ Free(p)
  /\ Finish(p, [NoRq EXCEPT !.op = "UserRepo.GetByID", !.uid = id],
            [NoRs EXCEPT !.err = r.err, !.user = r.user])
  /\ UNCHANGED <<hv, heap, mutex, now, users, byEmail, sessions, projects, issued, revoked>>

CallUserGetByEmail(p, email) ==
  LET r == MemoryUserRepository_GetByEmail(byEmail, email) IN
  /\ Free(p)
  /\ Finish(p, [NoRq EXCEPT !.op = "UserRepo.GetByEmail", !.email = email],
            [NoRs EXCEPT !.err = r.err, !.user = r.user])
  /\ UNCHANGED <<hv, heap, mutex, now, users, byEmail, sessions, projects, issued, revoked>>

(* the project values the caller of process p holds *)
HeldProjects(p) ==
  ({rs[p].project} \cup {rs[p].list[i] : i \in 1..Len(rs[p].list)}) \ {NoProject}

(* the backing arrays the caller of process p can reach through them *)
HeldArrays(p) ==
  ({v.Features : v \in HeldProjects(p)} \cup {v.TechStack : v \in HeldProjects(p)})
    \ {NilSlice}

(* the caller overwrites an element of a slice of a value it holds:         *)
(* project.Features[0] = ..., project.TechStack.Frontend[0] = ...           *)
Caller_SetElement(p, a) ==
  /\ pc[p] = "done"
  /\ a \in HeldArrays(p)
  /\ heap[a] # <<"changed">>
  /\ heap' = [heap EXCEPT ![a] = <<"changed">>]
  /\ UNCHANGED <<hv, mutex, now, users, byEmail, sessions, projects, pc, rq, lc, rs, issued,
                 revoked>>

(* the caller overwrites a scalar field of the value it holds *)
Caller_SetField(p) ==
  /\ pc[p] = "done"
  /\ \/ /\ rs[p].project \notin {NoProject, [rs[p].project EXCEPT !.Name = "changed"]}
        /\ rs' = [rs EXCEPT ![p].project.Name = "changed"]
     \/ /\ rs[p].user \notin {NoUser, [rs[p].user EXCEPT !.Email = "changed"]}
        /\ rs[p].op \in {"UserRepo.GetByID", "UserRepo.GetByEmail"}
        /\ rs' = [rs EXCEPT ![p].user.Email = "changed"]
  /\ UNCHANGED <<hv, heap, mutex, now, users, byEmail, sessions, projects, pc, rq, lc, issued,
                 revoked>>

-----------------------------------------------------------------------------
(* The stores and callers that write to the values they passed or received *)

AliasArgs == {NewProject(id, "n1", "d", SeedID, ZeroTime) : id \in ProjectIDs}

InitAlias == InitCommon /\ hv = "part_003"

NextAlias ==
  \E p \in Procs :
    \/ \E a \in AliasArgs, f \in SliceFields : CallProjectCreate(p, a, f)
    \/ \E a \in AliasArgs, f \in SliceFields : CallProjectUpdateSlice(p, a, f)
    \/ \E id \in ProjectIDs : CallProjectGetByID(p, id)
    \/ ProjectServiceImpl_ListProjects(p, SeedID)
    \/ \E id \in ProjectIDs : ProjectServiceImpl_DeleteProject(p, id)
    \/ ProjectServiceImpl_DeleteProject_Delete(p)
    \/ CallUserGetByID(p, SeedID)
    \/ CallUserGetByEmail(p, TestEmail)
    \/ \E a \in DOMAIN heap : Caller_SetElement(p, a)
    \/ Caller_SetField(p)
    \/ Return(p)

SpecAlias == InitAlias /\ [][NextAlias]_vars

(* what reads of the Project Store return, slices read through *)
StoredProjects ==
  [id \in DOMAIN projects |->
     [projects[id] EXCEPT !.Features = Deref(heap, @), !.TechStack = Deref(heap, @)]]

(* C12: a write of a caller to a value it passed to Create or Update or     *)
(* received from GetByID, List, GetByID or GetByEmail of the user store,    *)
(* elements of the Features and TechStack slices included, changes nothing  *)
(* of what the stores hold and later reads return.                          *)
C12_CallersWritesStayOutside ==
  [][ (\E p \in Procs : pc[p] = "done" /\ pc'[p] = "done")
        => /\ StoredProjects' = StoredProjects
           /\ users' = users
           /\ byEmail' = byEmail
    ]_vars

-----------------------------------------------------------------------------
(* The Session Registry at one clock reading while the Identity Store      *)
(* changes: sessions of two users are issued, checked and invalidated, and  *)
(* their users are updated, deleted and created again                       *)

(* the seeded user after a change of email *)
MovedUser == [SeedUser EXCEPT !.Email = OtherEmail]

InitResolve == InitCommon /\ hv = "part_003"

NextResolve ==
  \E p \in Procs :
    \/ \E id \in UserIDs : GenerateSessionToken(p, id)
    \/ \E t \in Tokens : VerifySession_Lookup(p, t)
    \/ VerifySession_Expiry(p)
    \/ VerifySession_GetUser(p)
    \/ VerifySession_Touch(p)
    \/ \E t \in Tokens : InvalidateSession_Lookup(p, t)
    \/ InvalidateSession_Delete(p)
    \/ \E u \in {SeedUser, MovedUser} : CallUserUpdate(p, u)
    \/ \E e \in Emails : CallUserCreate(p, NewUser("u1", e))
    \/ CallUserCreate(p, SeedUser)
    \/ \E id \in UserIDs : CallUserDelete(p, id)
    \/ Return(p)

SpecResolve == InitResolve /\ [][NextResolve]_vars

(* The user a session check resolves *)

(* the session check of process p is one of VerifySession's own callers *)
Verifying(p) == rq[p].op \in {"VerifySession", "Protected"}

(* C14: VerifySession resolves the session's user in the Identity Store as  *)
(* it is when the call reads it: if the user has been deleted the call      *)
(* fails with the user-not-found error and returns no user record; if not,  *)
(* the record it returns is the one the store holds at that moment, with    *)
(* every update made since the session was issued.                          *)
C14_UserResolvedAtVerification ==
  [][ \A p \in Procs :
        /\ (pc[p] = "v_user" /\ pc'[p] # "v_user" /\ Verifying(p))
             => LET id == lc[p].session.userID IN
                IF id \notin DOMAIN users
                  THEN /\ pc'[p] = "done"
                       /\ rs'[p].err = ErrUserNotFound
                       /\ rs'[p].user = NoUser
                  ELSE /\ pc'[p] = "v_touch"
                       /\ lc'[p].user = users[id]
        /\ (pc[p] = "v_touch" /\ pc'[p] # "v_touch" /\ Verifying(p))
             => /\ pc'[p] = "done"
                /\ rs'[p].err = ErrNone
                /\ rs'[p].user = lc[p].user
    ]_vars

(* the verification of a token whose user was deleted after the issue failed  *)
C14_Witness ==
  \E p \in Procs :
    /\ pc[p] = "done"
    /\ Verifying(p)
    /\ rq[p].tok \in issued
    /\ rq[p].tok[2] \notin DOMAIN users
    /\ rs[p].err = ErrUserNotFound
    /\ rs[p].user = NoUser

-----------------------------------------------------------------------------
(* Invalidation *)

(* C15: InvalidateSession(t) returns no error whether or not t has an       *)
(* entry, t has none when it returns, a call that finds none changes        *)
(* nothing (so a second call leaves the registry as the first left it),     *)
(* and no step of it adds, removes or changes the entry of another token.   *)
C15_InvalidateIdempotent ==
  [][ \A p \in Procs :
        (pc'[p] # pc[p] /\ rq'[p].op = "InvalidateSession") =>
          LET t == rq'[p].tok IN
          /\ DOMAIN sessions' \ {t} = DOMAIN sessions \ {t}
          /\ \A u \in DOMAIN sessions \ {t} : sessions'[u] = sessions[u]
          /\ t \notin DOMAIN sessions => sessions' = sessions
          /\ pc'[p] = "done" => /\ rs'[p].err = ErrNone
                                /\ t \notin DOMAIN sessions'
    ]_vars

(* an issued token has been invalidated and another token kept its entry *)
C15_Witness ==
  \E p \in Procs :
    /\ pc[p] = "done"
    /\ rs[p].op = "InvalidateSession"
    /\ rs[p].err = ErrNone
    /\ rq[p].tok \in issued
    /\ rq[p].tok \notin DOMAIN sessions
    /\ \E u \in DOMAIN sessions : u # rq[p].tok

-----------------------------------------------------------------------------
(* Issue *)

(* C16: the token GenerateSessionToken returns is not the key of a session  *)
(* that is in the registry when it is issued, also when the same user is    *)
(* issued two tokens at one clock reading, and the issue leaves every       *)
(* entry that was in the registry as it was.                                *)
C16_IssuedTokenIsFresh ==
  [][ \A p \in Procs :
        (pc[p] # "done" /\ pc'[p] = "done" /\ rs'[p].op = "GenerateSessionToken") =>
          /\ rs'[p].tok \notin DOMAIN sessions
          /\ \A u \in DOMAIN sessions : u \in DOMAIN sessions' /\ sessions'[u] = sessions[u]
    ]_vars

-----------------------------------------------------------------------------
(* Lifetime of the session and of its cookie *)

(* one clock tick in seconds: SessionTTL ticks are 24 * time.Hour *)
TickSeconds == 12 * 3600

(* the lifetime, in seconds, the registry gave the session of token t *)
StoredTTL(t) == (sessions[t].expiresAt - IssuedAt(t)) * TickSeconds

(* C17: the session a successful Login issues is stored with the lifetime   *)
(* the request's rememberMe selects, and the MaxAge of the session cookie   *)
(* Login sets equals that lifetime, so the cookie and the session expire    *)
(* together.                                                                *)
C17_CookieLivesAsLongAsSession ==
  \A p \in Procs :
    pc[p] = "done" /\ rs[p].op = "Login" /\ rs[p].tok # NoToken =>
      /\ rs[p].tok \in DOMAIN sessions
      /\ rs[p].sessionCookie.value = rs[p].tok
      /\ rs[p].sessionCookie.maxAge = StoredTTL(rs[p].tok)

-----------------------------------------------------------------------------
(* The two indexes of the Identity Store *)

(* a direct call op of the Identity Store by process p returns in this step *)
StoreReturns(p, op) == pc[p] # "done" /\ pc'[p] = "done" /\ rs'[p].op = op

(* the stored users whose email is e *)
UsersWithEmail(e) == {i \in DOMAIN users : users[i].Email = e}

(* C18: an Update, a direct one or the last-login write-back of             *)
(* Authenticate, that would change a user's email to one the email index    *)
(* holds for another user fails with the duplicate-email error and changes  *)
(* neither index: the old email still resolves to the unchanged user.       *)
C18_UpdateToTakenEmailRefused ==
  [][ \A p \in Procs :
        LET direct == StoreReturns(p, "UserRepo.Update")
            back == pc[p] = "a_update" /\ pc'[p] # "a_update"
            id == IF direct THEN rq'[p].uid ELSE lc[p].user.ID
            e == IF direct THEN rq'[p].email ELSE lc[p].user.Email
        IN
        ((direct \/ back) /\ id \in DOMAIN users /\ users[id].Email # e
                          /\ e \in DOMAIN byEmail /\ byEmail[e].ID # id)
          => /\ direct => rs'[p].err = ErrEmailAlreadyExists
             /\ users' = users
             /\ byEmail' = byEmail
             /\ byEmail'[users[id].Email] = users[id]
    ]_vars

(* an Update to the email of another user has been refused *)
C18_Witness ==
  \E p \in Procs :
    /\ pc[p] = "done"
    /\ rs[p].op = "UserRepo.Update"
    /\ rs[p].err = ErrEmailAlreadyExists
    /\ rq[p].uid \in DOMAIN users
    /\ users[rq[p].uid].Email # rq[p].email
    /\ rq[p].email \in DOMAIN byEmail
    /\ byEmail[rq[p].email].ID # rq[p].uid

(* the email index has an entry for e exactly when one user has email e,   *)
(* the entry is that user's record, and no two users have the same email    *)
IndexesDescribeSameUsers ==
  /\ \A i \in DOMAIN users : users[i].ID = i
  /\ \A e \in DOMAIN byEmail \cup {users[i].Email : i \in DOMAIN users} :
       /\ Cardinality(UsersWithEmail(e)) <= 1
       /\ e \in DOMAIN byEmail <=> Cardinality(UsersWithEmail(e)) = 1
       /\ \A i \in UsersWithEmail(e) : e \in DOMAIN byEmail /\ byEmail[e] = users[i]

(* C19: in every reachable state, under every interleaving of Create,       *)
(* Update, Delete, RegisterUser and the write-back of Authenticate, the two *)
(* indexes describe the same users; after an email change the old email no  *)
(* longer resolves and the new one resolves to the user; after a Delete     *)
(* neither the identifier nor the email resolves.                           *)
C19_IndexesStayConsistent ==
  /\ []IndexesDescribeSameUsers
  /\ [][ \A p \in Procs :
           /\ (StoreReturns(p, "UserRepo.Update") /\ rs'[p].err = ErrNone)
                => LET id == rq'[p].uid IN
                   /\ users'[id].Email = rq'[p].email
                   /\ MemoryUserRepository_GetByEmail(byEmail', rq'[p].email).user = users'[id]
                   /\ users[id].Email # rq'[p].email =>
                        MemoryUserRepository_GetByEmail(byEmail', users[id].Email).err
                          = ErrUserNotFound
           /\ (StoreReturns(p, "UserRepo.Delete") /\ rs'[p].err = ErrNone)
                => LET id == rq'[p].uid IN
                   /\ MemoryUserRepository_GetByID(users', id).err = ErrUserNotFound
                   /\ MemoryUserRepository_GetByEmail(byEmail', users[id].Email).err
                        = ErrUserNotFound
       ]_vars

(* Authenticate has returned a user whose email was changed, and its old    *)
(* email taken by another user, between its read and its write-back         *)
C19_Witness ==
  \E p \in Procs :
    /\ pc[p] = "done"
    /\ rs[p].op = "Authenticate"
    /\ rs[p].err = ErrNone
    /\ rs[p].user.ID \in DOMAIN users
    /\ users[rs[p].user.ID].Email # rs[p].user.Email
    /\ Cardinality(DOMAIN users) = 2

(* C20: Create of an identifier that is stored, called directly or by       *)
(* RegisterUser, fails with the duplicate-identifier error; Update and      *)
(* Delete of an identifier that is not stored fail with the user-not-found  *)
(* error; in each of these cases both indexes stay as they were.            *)
C20_IdentifierErrorsChangeNothing ==
  [][ \A p \in Procs :
        /\ ((StoreReturns(p, "UserRepo.Create") \/ (pc[p] = "g_create" /\ pc'[p] = "done"))
              /\ rq'[p].uid \in DOMAIN users)
             => /\ rs'[p].err = ErrUserIDExists
                /\ users' = users
                /\ byEmail' = byEmail
        /\ ((StoreReturns(p, "UserRepo.Update") \/ StoreReturns(p, "UserRepo.Delete"))
              /\ rq'[p].uid \notin DOMAIN users)
             => /\ rs'[p].err = ErrUserNotFound
                /\ users' = users
                /\ byEmail' = byEmail
    ]_vars

(* a Delete of an identifier that is not stored has been refused *)
C20_Witness ==
  \E p \in Procs :
    /\ pc[p] = "done"
    /\ rs[p].op = "UserRepo.Delete"
    /\ rs[p].err = ErrUserNotFound
    /\ rq[p].uid \notin DOMAIN users
    /\ users # EmptyMap

-----------------------------------------------------------------------------
(* Errors of the Project Store *)

(* a direct call op of the project service or store by p returns in this step *)
ProjectReturns(p, op) == pc[p] # "done" /\ pc'[p] = "done" /\ rs'[p].op = op

(* the identifiers List returns for userID, in any order of the map range *)
ListedIDs(ps, userID) ==
  UNION {{l[i].ID : i \in 1..Len(l)} :
           l \in {MemoryProjectRepository_List(ps, userID, o).projects :
                    o \in Orders(DOMAIN ps)}}

(* C21: Create of a project whose identifier is taken fails with the        *)
(* already-exists error, Update and Delete of an identifier that is not     *)
(* stored fail with the not-found error, and in each of these cases the     *)
(* stored projects stay as they were; after a successful Delete the         *)
(* project is not returned by GetByID and not listed for its owner.         *)
C21_ProjectStoreErrorsChangeNothing ==
  [][ \A p \in Procs :
        LET id == rq'[p].pid IN
        /\ (ProjectReturns(p, "ProjectService.CreateProject") /\ id \in DOMAIN projects)
             => /\ rs'[p].err = Wrap("failed to create project", ErrProjectIDExists)
                /\ projects' = projects
        /\ (ProjectReturns(p, "ProjectRepo.Update") /\ id \notin DOMAIN projects)
             => /\ rs'[p].err = ErrProjectNotFound
                /\ projects' = projects
        /\ (pc[p] = "d_del" /\ pc'[p] = "done" /\ id \notin DOMAIN projects)
             => /\ rs'[p].err = Wrap("failed to delete project", ErrProjectNotFound)
                /\ projects' = projects
        /\ (pc[p] = "d_del" /\ pc'[p] = "done" /\ id \in DOMAIN projects)
             => /\ rs'[p].err = ErrNone
                /\ MemoryProjectRepository_GetByID(projects', id).err = ErrProjectNotFound
                /\ id \notin ListedIDs(projects', projects[id].UserID)
                /\ \A i \in DOMAIN projects \ {id} :
                     i \in DOMAIN projects' /\ projects'[i] = projects[i]
    ]_vars

(* a Delete of a project another call had deleted in between was refused,   *)
(* with the projects of both owners in the store                            *)
C21_Witness ==
  \E p \in Procs :
    /\ pc[p] = "done"
    /\ rs[p].op = "ProjectService.DeleteProject"
    /\ rs[p].err = Wrap("failed to delete project", ErrProjectNotFound)
    /\ rq[p].pid \notin DOMAIN projects
    /\ \A o \in UserIDs : OwnedBy(projects, o) # {}

-----------------------------------------------------------------------------
(* The two surfaces behind RequireAuth *)

(* C22: a request that SessionMiddleware recorded as anonymous does not     *)
(* reach the handler behind RequireAuth: it is answered 401 on the JSON     *)
(* routes under /api/v1 and redirected to the login page on the             *)
(* interactive routes.                                                      *)
C22_AnonymousAPIGets401 ==
  \A p \in Procs :
    pc[p] = "done" /\ rs[p].op \in GuardedOps /\ ~rs[p].authenticated =>
      /\ ~rs[p].ran
      /\ rs[p].op = "ProtectedAPI" => rs[p].status = 401
      /\ rs[p].op = "Protected" => rs[p].status = 302 /\ rs[p].location = LoginPath

-----------------------------------------------------------------------------
(* SessionMiddleware in front of every route, with sessions that expire *)

InitAnon == InitCommon /\ hv = "part_004"

NextAnon ==
  \/ Tick
  \/ \E p \in Procs :
       \/ GenerateSessionToken(p, SeedID)
       \/ CallUserDelete(p, SeedID)
       \/ Request_Public(p, "", NoToken)
       \/ \E t \in Tokens : Request_Public(p, GateCookie, t)
       \/ Request_Protected(p, "", NoToken)
       \/ VerifySession_Expiry(p)
       \/ VerifySession_GetUser(p)
       \/ VerifySession_Touch(p)
       \/ Return(p)

SpecAnon == InitAnon /\ [][NextAnon]_vars

(* C23: a request without the session cookie, or whose token is unknown,   *)
(* expired or of a user that is gone, is recorded as anonymous with no      *)
(* user; SessionMiddleware never answers itself, so a public route runs     *)
(* its handler and a guarded route gets RequireAuth's decision.             *)
C23_SessionMiddlewarePassesOn ==
  \A p \in Procs :
    pc[p] = "done" /\ rs[p].op \in RouteOps =>
      /\ (rq[p].cookie # GateCookie
            \/ rs[p].err \in {ErrNoCookie, ErrInvalidSession, ErrSessionExpired,
                              ErrUserNotFound}) =>
           ~rs[p].authenticated /\ rs[p].user = NoUser
      /\ rs[p].op = "Public" => rs[p].ran /\ rs[p].status = 200
      /\ rs[p].op \in GuardedOps => rs[p].status # 0 /\ (rs[p].ran <=> rs[p].authenticated)

C23_Witness ==
  \E p \in Procs :
    /\ pc[p] = "done" /\ rs[p].op = "Public" /\ rq[p].cookie = GateCookie
    /\ rs[p].err = ErrSessionExpired /\ rq[p].tok \in issued
    /\ rs[p].ran /\ ~rs[p].authenticated /\ rs[p].sessionCookie = ClearCookie(GateCookie)

(* C24: a request of a protected route that carries the session cookie     *)
(* (the cookie Login writes) with a token that was never issued is         *)
(* answered with that same cookie cleared (same name, MaxAge -1) and a     *)
(* redirect to the login page.                                             *)
C24_FailedCookieCleared ==
  \A p \in Procs :
    (Answered(p) /\ rq[p].cookie = LoginCookie /\ rq[p].tok \notin issued) =>
      /\ rs[p].sessionCookie = ClearCookie(rq[p].cookie)
      /\ rs[p].status = 302
      /\ rs[p].location = LoginPath

-----------------------------------------------------------------------------
(* Login of the test user *)

-----------------------------------------------------------------------------
(* The owner a create handler gives a project *)

CreateHandlers == {"CreateProject", "APICreateProject"}

(* C26: a project that CreateProject or APICreateProject puts into the     *)
(* Project Store has the caller's resolved identity as UserID; it is       *)
(* listed for that user and for no other user.                             *)
C26_CreatedForCaller ==
  [][ \A p \in Procs :
        LET id == rq'[p].pid
            caller == rq'[p].uid
        IN
        (/\ pc[p] = "idle" /\ pc'[p] = "done"
         /\ rq'[p].op \in CreateHandlers
         /\ id \notin DOMAIN projects /\ id \in DOMAIN projects') =>
          /\ projects'[id].UserID = caller
          /\ id \in ListedIDs(projects', caller)
          /\ \A o \in UserIDs \ {caller} : id \notin ListedIDs(projects', o)
    ]_vars

-----------------------------------------------------------------------------
(* The error answers of the JSON endpoints that take an id *)

APIIdHandlers == {"APIGetProject", "APIUpdateProject", "APIDeleteProject"}

-----------------------------------------------------------------------------
(* Mutual exclusion on the Session Registry *)

(* the positions of a call between its first and its last access of the    *)
(* session map: VerifySession after its lookup, InvalidateSession before   *)
(* its delete                                                              *)
InsideRegistry == {"v_check", "v_user", "v_touch", "i_delete"}

(* C28: the calls on the Session Registry are serialized: while one call   *)
(* that writes the session map is between its first and its last access    *)
(* of the map, no other call is.                                           *)
C28_RegistrySerialized ==
  \A p, q \in Procs :
    p # q => ~(pc[p] \in InsideRegistry /\ pc[q] \in InsideRegistry)

-----------------------------------------------------------------------------
(* The repositories statement by statement: every method takes the mutex   *)
(* of its repository, reads and writes the maps one access at a time, and  *)
(* releases the mutex when it returns (defer).                             *)

UserWriteOps == {"UserRepo.Create", "UserRepo.Update", "UserRepo.Delete"}
UserReadOps == {"UserRepo.GetByID", "UserRepo.GetByEmail"}
ProjectWriteOps == {"ProjectRepo.Create", "ProjectRepo.Update", "ProjectRepo.Delete"}
ProjectReadOps == {"ProjectRepo.GetByID", "ProjectRepo.List"}
StoreOf(op) == IF op \in UserWriteOps \cup UserReadOps THEN "users" ELSE "projects"

(* one assignment to, or delete from, a map *)
MapWrite(map, key, del, u, project) ==
  [map |-> map, key |-> key, del |-> del, user |-> u, project |-> project]

(* Create, Update, Delete of MemoryUserRepository under the write lock:    *)
(* the error of the checks, or the map writes in the order of the code     *)
UserWrites(op, u) ==
  IF op = "UserRepo.Create" THEN
    IF u.ID \in DOMAIN users THEN [err |-> ErrUserIDExists, writes |-> <<>>]
    ELSE IF u.Email \in DOMAIN byEmail THEN [err |-> ErrEmailAlreadyExists, writes |-> <<>>]
    ELSE [err |-> ErrNone,
          writes |-> <<MapWrite("users", u.ID, FALSE, u, NoProject),
                       MapWrite("byEmail", u.Email, FALSE, u, NoProject)>>]
  ELSE IF op = "UserRepo.Update" THEN
    IF u.ID \notin DOMAIN users THEN [err |-> ErrUserNotFound, writes |-> <<>>]
    ELSE IF users[u.ID].Email # u.Email /\ u.Email \in DOMAIN byEmail
      THEN [err |-> ErrEmailAlreadyExists, writes |-> <<>>]
    ELSE [err |-> ErrNone,
          writes |-> (IF users[u.ID].Email # u.Email
                        THEN <<MapWrite("byEmail", users[u.ID].Email, TRUE, NoUser, NoProject)>>
                        ELSE <<>>)
                     \o <<MapWrite("users", u.ID, FALSE, u, NoProject),
                          MapWrite("byEmail", u.Email, FALSE, u, NoProject)>>]
  ELSE
    IF u.ID \notin DOMAIN users THEN [err |-> ErrUserNotFound, writes |-> <<>>]
    ELSE [err |-> ErrNone,
          writes |-> <<MapWrite("users", u.ID, TRUE, NoUser, NoProject),
                       MapWrite("byEmail", users[u.ID].Email, TRUE, NoUser, NoProject)>>]

(* Create, Update, Delete of MemoryProjectRepository under the write lock *)
ProjectWrites(op, project) ==
  IF op = "ProjectRepo.Create" THEN
    IF project.ID \in DOMAIN projects THEN [err |-> ErrProjectIDExists, writes |-> <<>>]
    ELSE [err |-> ErrNone,
          writes |-> <<MapWrite("projects", project.ID, FALSE, NoUser, project)>>]
  ELSE IF project.ID \notin DOMAIN projects
    THEN [err |-> ErrProjectNotFound, writes |-> <<>>]
  ELSE [err |-> ErrNone,
        writes |-> <<MapWrite("projects", project.ID, op = "ProjectRepo.Delete",
                              NoUser, project)>>]

(* r.mutex.Lock() of a writing method, called with user u or project project *)
Store_Lock(p, op, u, project) ==
  LET s == StoreOf(op) IN
  /\ CanLock(mutex[s])
  /\ mutex' = [mutex EXCEPT ![s].w = p]
  /\ Begin(p, [NoRq EXCEPT !.op = op, !.uid = u.ID, !.email = u.Email, !.pid = project.ID],
           "locked", [NoLc EXCEPT !.user = u, !.project = project])
  /\ UNCHANGED <<hv, heap, now, users, byEmail, sessions, projects, issued, revoked>>

(* a method that returns its error without releasing the mutex *)
Store_Check_KeepLock(p) ==
  LET b == IF rq[p].op \in UserWriteOps THEN UserWrites(rq[p].op, lc[p].user)
           ELSE ProjectWrites(rq[p].op, lc[p].project)
  IN
  /\ pc[p] = "locked"
  /\ IF b.err # "nil"
       THEN Finish(p, rq[p], [NoRs EXCEPT !.err = b.err])
       ELSE Goto(p, "writing", [lc[p] EXCEPT !.writes = b.writes])
  /\ UNCHANGED <<hv, heap, mutex, now, users, byEmail, sessions, projects, issued, revoked>>

(* the checks of the method: it returns the error, releasing the mutex, or *)
(* goes on to its map writes                                               *)
Store_Check(p) ==
  LET b == IF rq[p].op \in UserWriteOps THEN UserWrites(rq[p].op, lc[p].user)
           ELSE ProjectWrites(rq[p].op, lc[p].project)
  IN
  /\ pc[p] = "locked"
  /\ IF b.err # ErrNone
       THEN /\ Finish(p, rq[p], [NoRs EXCEPT !.err = b.err])
            /\ mutex' = [mutex EXCEPT ![StoreOf(rq[p].op)].w = ""]
       ELSE /\ Goto(p, "writing", [lc[p] EXCEPT !.writes = b.writes])
            /\ UNCHANGED mutex
  /\ UNCHANGED <<hv, heap, now, users, byEmail, sessions, projects, issued, revoked>>

(* the next map write of the method *)
Store_Write(p) ==
  LET w == Head(lc[p].writes)
      After(map, name, val) ==
        IF w.map # name THEN map
        ELSE IF w.del THEN Del(map, w.key) ELSE Put(map, w.key, val)
  IN
  /\ pc[p] = "writing"
  /\ lc[p].writes # <<>>
  /\ users' = After(users, "users", w.user)
  /\ byEmail' = After(byEmail, "byEmail", w.user)
  /\ projects' = After(projects, "projects", w.project)
  /\ Goto(p, "writing", [lc[p] EXCEPT !.writes = Tail(@)])
  /\ UNCHANGED <<hv, heap, mutex, now, sessions, issued, revoked>>

(* return nil, and the deferred r.mutex.Unlock() *)
Store_Unlock(p) ==
  /\ pc[p] = "writing"
  /\ lc[p].writes = <<>>
  /\ mutex' = [mutex EXCEPT ![StoreOf(rq[p].op)].w = ""]
  /\ Finish(p, rq[p], [NoRs EXCEPT !.err = ErrNone])
  /\ UNCHANGED <<hv, heap, now, users, byEmail, sessions, projects, issued, revoked>>

(* r.mutex.RLock() of a reading method, called with an ID, an email or an  *)
(* owner                                                                   *)
Store_RLock(p, op, key) ==
  LET s == StoreOf(op) IN
  /\ CanRLock(mutex[s])
  /\ mutex' = [mutex EXCEPT ![s].r = @ \cup {p}]
  /\ Begin(p, [NoRq EXCEPT !.op = op, !.uid = key], "rlocked", NoLc)
  /\ UNCHANGED <<hv, heap, now, users, byEmail, sessions, projects, issued, revoked>>

(* the map read of the method, its return and the deferred RUnlock() *)
Store_Read(p) ==
  LET k == rq[p].uid
      u == IF rq[p].op = "UserRepo.GetByID" THEN MemoryUserRepository_GetByID(users, k)
           ELSE MemoryUserRepository_GetByEmail(byEmail, k)
      g == MemoryProjectRepository_GetByID(projects, k)
  IN
  /\ pc[p] = "rlocked"
  /\ mutex' = [mutex EXCEPT ![StoreOf(rq[p].op)].r = @ \ {p}]
  /\ \/ /\ rq[p].op \in UserReadOps
        /\ Finish(p, rq[p], [NoRs EXCEPT !.err = u.err, !.user = u.user])
     \/ /\ rq[p].op = "ProjectRepo.GetByID"
        /\ Finish(p, rq[p], [NoRs EXCEPT !.err = g.err, !.project = g.project])
     \/ /\ rq[p].op = "ProjectRepo.List"
        /\ \E o \in Orders(DOMAIN projects) :
             Finish(p, rq[p],
                    [NoRs EXCEPT !.list = MemoryProjectRepository_List(projects, k, o).projects])
  /\ UNCHANGED <<hv, heap, now, users, byEmail, sessions, projects, issued, revoked>>

LockUsers == {NewUser(i, e) : i \in UserIDs, e \in Emails}
LockProjects == {NewProject("p1", n, "d", o, ZeroTime) : n \in {"n1", "n2"}, o \in UserIDs}

InitLock == InitCommon /\ hv = "part_003"

NextLock ==
  \E p \in Procs :
    \/ \E op \in UserWriteOps, u \in LockUsers : Store_Lock(p, op, u, NoProject)
    \/ \E op \in ProjectWriteOps, project \in LockProjects : Store_Lock(p, op, NoUser, project)
    \/ Store_Check(p)
    \/ Store_Write(p)
    \/ Store_Unlock(p)
    \/ \E i \in UserIDs : Store_RLock(p, "UserRepo.GetByID", i)
    \/ \E e \in Emails : Store_RLock(p, "UserRepo.GetByEmail", e)
    \/ Store_RLock(p, "ProjectRepo.GetByID", "p1")
    \/ \E o \in UserIDs : Store_RLock(p, "ProjectRepo.List", o)
    \/ Store_Read(p)
    \/ Return(p)

SpecLock == InitLock /\ [][NextLock]_vars

(* the processes inside a method of the store, between taking and          *)
(* releasing its mutex, and those of them inside a writing method          *)
Holding(s) == {p \in Procs : pc[p] \in {"locked", "writing", "rlocked"} /\ StoreOf(rq[p].op) = s}
Writing(s) == {p \in Holding(s) : pc[p] \in {"locked", "writing"}}

(* C29: while a Create, Update or Delete of a repository is between its    *)
(* Lock and its Unlock no other method of that repository is inside its    *)
(* own locked section, and whenever a reading method of the user           *)
(* repository holds the read lock the maps users and byEmail describe the  *)
(* same users.                                                             *)
C29_WritersExclude ==
  /\ \A s \in Stores : Writing(s) # {} => Cardinality(Holding(s)) = 1
  /\ Holding("users") \ Writing("users") # {} => IndexesDescribeSameUsers

(* two reading methods of the user repository hold the read lock at once *)
C29_Witness ==
  /\ Cardinality(Holding("users") \ Writing("users")) = 2
  /\ mutex["users"].r = Procs

-----------------------------------------------------------------------------
(* The timestamps ProjectServiceImpl writes, under a clock that advances *)

(* the project values a caller passes, with a creation time of its own:    *)
(* the zero time or a time no clock reading exceeds                        *)
StampProjects ==
  {[a EXCEPT !.CreatedAt = c, !.UpdatedAt = ZeroTime] :
     a \in ArgProjects, c \in {ZeroTime, MaxTime}}

InitStamps == InitCommon /\ hv = "part_003"

NextStamps ==
  \/ Tick
  \/ \E p \in Procs :
       \/ \E a \in StampProjects, id \in ProjectIDs : CallCreateProject(p, a, id)
       \/ \E a \in StampProjects : ProjectServiceImpl_UpdateProject(p, a)
       \/ ProjectServiceImpl_UpdateProject_Put(p)
       \/ Return(p)

SpecStamps == InitStamps /\ [][NextStamps]_vars

(* C30: after any calls of ProjectService.CreateProject and UpdateProject, *)
(* in sequence or interleaved, under a clock that never goes back, every   *)
(* stored project has UpdatedAt >= CreatedAt, and no step changes the      *)
(* CreatedAt of a stored project, whatever CreatedAt the caller of         *)
(* UpdateProject passed.                                                   *)
C30_StampsOrdered ==
  /\ [](\A id \in DOMAIN projects : projects[id].UpdatedAt >= projects[id].CreatedAt)
  /\ [][\A id \in DOMAIN projects :
          id \in DOMAIN projects' /\ projects'[id].CreatedAt = projects[id].CreatedAt]_vars

C30_Witness ==
  \E p \in Procs :
    /\ pc[p] = "done" /\ rs[p].op = "ProjectService.UpdateProject" /\ rs[p].err = ErrNone
    /\ rq[p].pid \in DOMAIN projects
    /\ projects[rq[p].pid].Name = rq[p].name
    /\ projects[rq[p].pid].UpdatedAt > projects[rq[p].pid].CreatedAt

-----------------------------------------------------------------------------
(* What removes a session entry *)

InitFrame == InitCommon /\ hv = "part_003"

NextFrame ==
  \/ Tick
  \/ \E p \in Procs :
       \/ GenerateSessionToken(p, SeedID)
       \/ \E t \in issued : VerifySession_Lookup(p, t)
       \/ VerifySession_Expiry(p)
       \/ VerifySession_GetUser(p)
       \/ VerifySession_Touch(p)
       \/ \E t \in issued : InvalidateSession_Lookup(p, t)
       \/ InvalidateSession_Delete(p)
       \/ CallUserDelete(p, SeedID)
       \/ Return(p)

SpecFrame == InitFrame /\ [][NextFrame]_vars

(* C31: a step removes the entry of token t from the Session Registry only *)
(* if it is the delete of InvalidateSession(t) or the delete of a          *)
(* VerifySession(t) that found the entry expired; every other step (issue, *)
(* verification or invalidation of another token, deletion of the          *)
(* session's user, the passing of time) leaves the entry in place with the *)
(* same owner and the same expiry.                                         *)
C31_OnlyOwnCallsRemove ==
  [][ \A t \in DOMAIN sessions :
        IF t \notin DOMAIN sessions'
          THEN \E p \in Procs :
                 /\ rq[p].tok = t
                 /\ pc'[p] = "done"
                 /\ \/ pc[p] = "i_delete"
                    \/ pc[p] = "v_check" /\ SessionExpired(now, lc[p].session)
          ELSE /\ sessions'[t].userID = sessions[t].userID
               /\ sessions'[t].expiresAt = sessions[t].expiresAt
    ]_vars

(* an expired entry of a deleted user is still in the registry after       *)
(* another token has been invalidated                                      *)
C31_Witness ==
  \E t \in DOMAIN sessions, p \in Procs :
    /\ SessionExpired(now, sessions[t])
    /\ sessions[t].userID \notin DOMAIN users
    /\ pc[p] = "done" /\ rs[p].op = "InvalidateSession"
    /\ rq[p].tok \in issued \ {t}

-----------------------------------------------------------------------------
(* The return-to cookie at Login *)

(* a path of this site: it starts with one "/", not with "//" (which a     *)
(* browser reads as the host of another site), and has no scheme separator *)
SameOriginRelative(u) ==
  /\ Len(u) > 0
  /\ u[1] = "/"
  /\ Len(u) >= 2 => u[2] # "/"
  /\ \A i \in 1..Len(u) : u[i] # "://"

(* C32: a successful Login that carries a return_to cookie clears it, and  *)
(* redirects to its value only if that is a same-origin relative path;     *)
(* otherwise it redirects to /.                                            *)
C32_ReturnToConsumedSafely ==
  \A p \in Procs :
    (pc[p] = "done" /\ rs[p].op = "Login" /\ rs[p].tok # NoToken) =>
      /\ rq[p].returnTo # <<>> => rs[p].clearsReturnTo
      /\ \/ rs[p].location = RootPath
         \/ rs[p].location = rq[p].returnTo /\ SameOriginRelative(rq[p].returnTo)

-----------------------------------------------------------------------------
(* The identifier NewProject gives a project *)

(* generateID: time.Now().Format("20060102150405"), the clock reading      *)
(* written out to the second; one reading of the model clock is one second *)
generateID(t) == <<"20060102150400", "20060102150401", "20060102150402", "20060102150403",
                   "20060102150404", "20060102150405">>[t + 1]

InitCreate == InitCommon

NextCreate ==
  \/ Tick
  \/ \E p \in Procs, c \in Callers, n \in {"n1", ""} :
       \/ Handler_CreateProject(p, c, n, "d", generateID(now))
       \/ Handler_APICreateProject(p, c, n, "d", generateID(now))
  \/ \E p \in Procs : Return(p)

SpecCreate == InitCreate /\ [][NextCreate]_vars

(* C33: a create request with a non-empty name succeeds (201 on the API,   *)
(* the redirect 303 on the form) and stores the project under an           *)
(* identifier no stored project had, also when another project was         *)
(* created at the same clock reading.                                      *)
C33_CreateNeverClashes ==
  [][ \A p \in Procs :
        (/\ pc[p] = "idle" /\ pc'[p] = "done"
         /\ rq'[p].op \in CreateHandlers
         /\ rq'[p].name # "") =>
          /\ rs'[p].status = IF rq'[p].op = "APICreateProject" THEN 201 ELSE 303
          /\ rq'[p].pid \notin DOMAIN projects
          /\ rq'[p].pid \in DOMAIN projects'
    ]_vars

-----------------------------------------------------------------------------
(* A user identifier after its user is deleted *)

(* another person's record under the identifier of the seeded user *)
ReusedUser == NewUser(SeedID, OtherEmail)

InitReuse == InitCommon /\ hv = "part_003"

NextReuse ==
  \E p \in Procs :
    \/ GenerateSessionToken(p, SeedID)
    \/ \E t \in Tokens : VerifySession_Lookup(p, t)
    \/ VerifySession_Expiry(p)
    \/ VerifySession_GetUser(p)
    \/ VerifySession_Touch(p)
    \/ CallUserDelete(p, SeedID)
    \/ CallUserCreate(p, ReusedUser)
    \/ Return(p)

SpecReuse == InitReuse /\ [][NextReuse]_vars

(* C34: the identifier of the seeded user, stored since the repository was *)
(* built, is never given to a record again once that user is deleted, and  *)
(* a session issued for the seeded user never resolves to a record with    *)
(* another email.                                                          *)
C34_IdentifierNeverReused ==
  [][ /\ SeedID \notin DOMAIN users => SeedID \notin DOMAIN users'
      /\ \A p \in Procs :
           (/\ pc[p] # "done" /\ pc'[p] = "done"
            /\ rs'[p].op = "VerifySession" /\ rs'[p].err = ErrNone
            /\ rq'[p].tok[2] = SeedID) => rs'[p].user.Email = TestEmail
    ]_vars

-----------------------------------------------------------------------------
(* Validation in ProjectServiceImpl *)

ServiceCall(p, op) == pc[p] = "idle" /\ pc'[p] # "idle" /\ rq'[p].op = op

(* C35: CreateProject and UpdateProject refuse an empty name and change    *)
(* nothing; UpdateProject of an identifier that is not stored fails at its *)
(* lookup and changes nothing; a successful CreateProject of a project     *)
(* without identifier stores it under a non-empty one, and the list of     *)
(* its owner contains it.                                                  *)
C35_ServiceValidates ==
  [][ \A p \in Procs :
        /\ (ServiceCall(p, "ProjectService.CreateProject") /\ rq'[p].name = "") =>
             /\ pc'[p] = "done" /\ rs'[p].err = ErrNameEmpty
             /\ projects' = projects
        /\ (ServiceCall(p, "ProjectService.UpdateProject")
              /\ rq'[p].pid \notin DOMAIN projects) =>
             /\ pc'[p] = "done"
             /\ rs'[p].err = Wrap("failed to get existing project", ErrProjectNotFound)
             /\ projects' = projects
        /\ (ServiceCall(p, "ProjectService.UpdateProject")
              /\ rq'[p].pid \in DOMAIN projects /\ rq'[p].name = "") =>
             /\ pc'[p] = "done" /\ rs'[p].err = ErrNameEmpty
             /\ projects' = projects
        /\ (ServiceCall(p, "ProjectService.CreateProject") /\ rq'[p].pid = ""
              /\ rs'[p].err = ErrNone) =>
             \E id \in DOMAIN projects' \ DOMAIN projects :
               /\ id # ""
               /\ projects'[id].ID = id
               /\ projects'[id].Name = rq'[p].name
               /\ id \in ListedIDs(projects', rq'[p].uid)
    ]_vars

C35_Witness ==
  \E p \in Procs :
    /\ pc[p] = "done" /\ rs[p].op = "ProjectService.CreateProject"
    /\ rq[p].pid = "" /\ rq[p].name # "" /\ rs[p].err = ErrNone
    /\ \E id \in DOMAIN projects : id # "" /\ id \in ListedIDs(projects, rq[p].uid)

-----------------------------------------------------------------------------
(* The user in the request context *)

(* C39: the context flag authenticated is true exactly when a user is set  *)
(* in the context, and whenever a handler behind RequireAuth has run the   *)
(* context holds a user: the one VerifySession returned, without error,    *)
(* for the token in this request's session cookie.                         *)
C39_HandlerHasUser ==
  \A p \in Procs :
    (pc[p] = "done" /\ rs[p].op \in RouteOps) =>
      /\ rs[p].authenticated <=> rs[p].user # NoUser
      /\ (rs[p].op \in GuardedOps /\ rs[p].ran) =>
           /\ rs[p].user # NoUser
           /\ rq[p].cookie = GateCookie
           /\ rs[p].err = ErrNone
           /\ rs[p].user.ID = rq[p].tok[2]

C39_Witness ==
  \E p \in Procs :
    /\ pc[p] = "done" /\ rs[p].op = "ProtectedAPI" /\ rs[p].ran
    /\ rs[p].authenticated /\ rs[p].user.ID = SeedID
    /\ rq[p].tok \in issued /\ rq[p].tok[2] = SeedID

-----------------------------------------------------------------------------
(* Updates that race with a delete *)

UpdateHandlers == {"UpdateProject", "APIUpdateProject"}

(* C37: only a create handler adds an identifier to the Project Store. An  *)
(* update request whose handler read the project before a delete removed   *)
(* it fails with the not-found error of the service's lookup or of the     *)
(* repository's Update, is answered 500, and leaves the project absent.    *)
C37_UpdateNeverCreates ==
  [][ /\ \A id \in DOMAIN projects' \ DOMAIN projects :
           \E p \in Procs :
             /\ pc[p] = "idle" /\ pc'[p] = "done"
             /\ rq'[p].op \in CreateHandlers /\ rq'[p].pid = id
      /\ \A p \in Procs :
           (/\ pc[p] \in {"u_get", "u_put"} /\ pc'[p] # pc[p]
            /\ rq[p].op \in UpdateHandlers
            /\ rq[p].pid \notin DOMAIN projects) =>
             /\ pc'[p] = "done"
             /\ rs'[p].status = 500
             /\ projects' = projects
             /\ pc[p] = "u_get" =>
                  UpdateProject_Check(projects, lc[p].project).err
                    = Wrap("failed to get existing project", ErrProjectNotFound)
             /\ pc[p] = "u_put" =>
                  MemoryProjectRepository_Update(projects, lc[p].project).err
                    = ErrProjectNotFound
    ]_vars

(* an owner's update, begun while the project was stored, has failed       *)
(* because a delete came first; the project is absent                      *)
C37_Witness ==
  \E p \in Procs :
    /\ pc[p] = "done" /\ rs[p].op = "APIUpdateProject"
    /\ rq[p].rel = "owner" /\ ~rq[p].bad
    /\ rs[p].status = 500
    /\ rq[p].pid \notin DOMAIN projects

-----------------------------------------------------------------------------
(* The write-back of Authenticate *)

(* C38: the step in which Authenticate writes the last login back changes  *)
(* at most the LastLogin field of stored users and no email index entry    *)
(* other than through that field, so it reverts nothing an Update has      *)
(* committed since Authenticate read the user; an Authenticate that fails  *)
(* changes nothing.                                                        *)
C38_AuthenticateOnlyTouchesLastLogin ==
  [][ \A p \in Procs :
        /\ (pc[p] = "a_update" /\ pc'[p] # "a_update") =>
             /\ DOMAIN users' = DOMAIN users
             /\ \A i \in DOMAIN users :
                  [users'[i] EXCEPT !.LastLogin = users[i].LastLogin] = users[i]
             /\ DOMAIN byEmail' = DOMAIN byEmail
        /\ (pc[p] = "idle" /\ pc'[p] = "done" /\ rs'[p].op = "Authenticate"
              /\ rs'[p].err # ErrNone) =>
             users' = users /\ byEmail' = byEmail
    ]_vars

-----------------------------------------------------------------------------
(* Waiting for the mutex. A call of a repository method first reaches its  *)
(* Lock or RLock and waits there until the mutex lets it in.               *)

(* the call of a method: the goroutine reaches r.mutex.Lock() or RLock()   *)
Store_Arrive(p, op, key, u, project) ==
  /\ Begin(p, [NoRq EXCEPT !.op = op, !.uid = IF key # "" THEN key ELSE u.ID,
                           !.email = u.Email, !.pid = project.ID],
           "wait", [NoLc EXCEPT !.user = u, !.project = project])
  /\ UNCHANGED <<hv, heap, mutex, now, users, byEmail, sessions, projects, issued, revoked>>

(* Lock() or RLock() returns *)
Store_Acquire(p) ==
  LET s == StoreOf(rq[p].op)
      writes == rq[p].op \in UserWriteOps \cup ProjectWriteOps
  IN
  /\ pc[p] = "wait"
  /\ IF writes
       THEN /\ CanLock(mutex[s])
            /\ mutex' = [mutex EXCEPT ![s].w = p]
       ELSE /\ CanRLock(mutex[s])
            /\ mutex' = [mutex EXCEPT ![s].r = @ \cup {p}]
  /\ Goto(p, IF writes THEN "locked" ELSE "rlocked", lc[p])
  /\ UNCHANGED <<hv, heap, now, users, byEmail, sessions, projects, issued, revoked>>

InitLive == InitCommon /\ hv = "part_003"

(* the steps of process p once its call has begun *)
Runs(p) ==
  \/ Store_Check(p)
  \/ Store_Write(p)
  \/ Store_Unlock(p)
  \/ Store_Read(p)
  \/ Return(p)

NextLive ==
  \E p \in Procs :
    \/ \E op \in UserWriteOps, u \in {SeedUser, MovedUser} :
         Store_Arrive(p, op, "", u, NoProject)
    \/ Store_Arrive(p, "UserRepo.GetByID", SeedID, NoUser, NoProject)
    \/ Store_Arrive(p, "UserRepo.GetByEmail", TestEmail, NoUser, NoProject)
    \/ \E op \in ProjectWriteOps :
         Store_Arrive(p, op, "", NoUser, NewProject("p1", "n1", "d", SeedID, ZeroTime))
    \/ Store_Arrive(p, "ProjectRepo.GetByID", "p1", NoUser, NoProject)
    \/ Store_Arrive(p, "ProjectRepo.List", SeedID, NoUser, NoProject)
    \/ Store_Acquire(p)
    \/ Runs(p)

(* The goroutine scheduler runs every goroutine that can run, and a        *)
(* goroutine waiting at a sync.RWMutex is let in once the mutex has been   *)
(* released often enough (a waiting writer holds back new readers, a       *)
(* starving waiter is handed the mutex); a step of the model is off only   *)
(* while another call hands over its result or holds the mutex, so both    *)
(* are strong fairness of the steps of each process.                       *)
SpecLive ==
  /\ InitLive
  /\ [][NextLive]_vars
  /\ \A p \in Procs : SF_vars(Store_Acquire(p)) /\ SF_vars(Runs(p))

(* p holds a mutex *)
HoldsMutex(p) == \E s \in Stores : mutex[s].w = p \/ p \in mutex[s].r

(* C36: a process that is not inside a repository method holds no mutex    *)
(* (every path of every method releases it), and every call that has       *)
(* reached its Lock or RLock gets the mutex, runs to its end and returns:  *)
(* no call waits forever and no interleaving deadlocks.                    *)
C36_LocksReleasedCallsEnd ==
  /\ [](\A p \in Procs : HoldsMutex(p) <=> pc[p] \in {"locked", "writing", "rlocked"})
  /\ \A p \in Procs : (pc[p] = "wait") ~> (pc[p] = "done")
  /\ \A p \in Procs : HoldsMutex(p) ~> ~HoldsMutex(p)

(* a writer waits while a reader holds the mutex of its repository *)
C36_Witness ==
  \E p, q \in Procs :
    /\ pc[p] = "wait" /\ rq[p].op \in UserWriteOps
    /\ q \in mutex["users"].r

====
